---- MODULE Spec2Model ----
(***************************************************************************)
(* The Split aggregate of nikoren/accounting (package internal/domain):   *)
(* Page, Document and Split with their mutation methods, as a state        *)
(* machine over one in-memory Split and the Page objects its slices point  *)
(* to.                                                                     *)
(*                                                                         *)
(* Go representation choices:                                              *)
(*   - a *Page is a reference into `heap`; uuid.New() is modelled by the   *)
(*     index of the freshly allocated heap cell, so Page.ID = reference;   *)
(*   - a nilable pointer to a string or a time.Time is a sequence: <<>>    *)
(*     is nil, <<v>> points to v;                                          *)
(*   - a string is a TLA+ string, "" being the empty string; a page URL is *)
(*     the triple <<prefix, number, suffix>> and <<>> the empty URL;       *)
(*   - an error is the chain of its kinds, outermost first; <<>> is nil;   *)
(*     a non-domain error (fmt.Errorf, errors.New) has kind "plain".       *)
(***************************************************************************)
EXTENDS Integers, Sequences, FiniteSets, TLC

VARIABLES
    split,   \* the Split aggregate
    heap,    \* the Page objects allocated so far, indexed by reference
    added,   \* how many AddDocument calls have succeeded
    db,      \* the committed rows of the tables splits, documents and pages
    uow,     \* the Units of Work of the service operations in progress
    ops      \* how many service operations have started

\* the variables of the storage and of the service
store == <<db, uow, ops>>

vars == <<split, heap, added, db, uow, ops>>

----------------------------------------------------------------------------
(* Bounds of the model *)

\* number of Page objects ever allocated (uuid.New() calls)
MaxPages == 2

\* number of documents in the JSON given to NewSplit
MaxDocs == 1

\* number of AddDocument calls that succeed
MaxAdds == 1

----------------------------------------------------------------------------
(* Value universes *)

DocIDs == {"d1", "d2"}
Times == {1, 2}
PageNumbers == {1, 2}

NilPtr == <<>>
Ptr(v) == <<v>>

NoErr == <<>>

SplitStatusDraft == "draft"
SplitStatusFinalized == "finalized"

DomainErrorValidation == "validation"
DomainErrorNotFound == "not_found"
DomainErrorConflict == "conflict"
PlainError == "plain"

\* NewDomainError(kind, message, cause): the kind in front of the cause's chain
NewDomainError(kind, cause) == <<kind>> \o cause
NewValidationError(cause) == NewDomainError(DomainErrorValidation, cause)
NewNotFoundError(cause) == NewDomainError(DomainErrorNotFound, cause)
NewConflictError(cause) == NewDomainError(DomainErrorConflict, cause)
\* fmt.Errorf("...: %w", cause) and fmt.Errorf("...") without a cause
Errorf(cause) == <<PlainError>> \o cause

\* var ErrNotFound = errors.New("not found"): an error that is no *DomainError
\* and that errors.Is recognizes by identity
ErrNotFound == <<"ErrNotFound">>
IsErrNotFound(err) == \E i \in 1..Len(err) : err[i] = "ErrNotFound"

\* errors.As(err, &domainErr) followed by domainErr.Kind: the kind of the first
\* *DomainError of the chain, "plain" when the chain holds none, "" for nil
RECURSIVE KindOf(_)
KindOf(err) ==
    IF err = NoErr THEN ""
    ELSE IF Head(err) \notin {PlainError, "ErrNotFound"} THEN Head(err)
    ELSE IF Tail(err) = NoErr THEN PlainError
    ELSE KindOf(Tail(err))

----------------------------------------------------------------------------
(* Page *)

PageURL(n) == <<"page_", n, ".png">>
GoodURLs == {PageURL(n) : n \in PageNumbers}
BadURL == <<"scan_", 1, ".png">>
EmptyURL == <<>>

\* fmt.Sscanf(url, "page_%d.png", &pageNumber): the literal prefix, an integer,
\* the literal suffix
SscanfPage(url) ==
    IF Len(url) = 3 /\ url[1] = "page_" /\ url[3] = ".png"
    THEN [ok |-> TRUE, n |-> url[2]]
    ELSE [ok |-> FALSE, n |-> 0]

PageValid(p) ==
    IF p.ID = 0 THEN NewValidationError(NoErr)
    ELSE IF p.SplitID = "" THEN NewValidationError(NoErr)
    ELSE IF p.URL = EmptyURL THEN NewValidationError(NoErr)
    ELSE NoErr

\* NewPage(splitID, url) with id the fresh uuid
NewPage(id, splitID, url) ==
    LET sc == SscanfPage(url)
        p == [ID |-> id, SplitID |-> splitID, DocumentID |-> NilPtr,
              PageNumber |-> sc.n, URL |-> url]
    IN  IF ~sc.ok THEN [ok |-> FALSE, page |-> p, err |-> Errorf(<<PlainError>>)]
        ELSE IF PageValid(p) # NoErr
             THEN [ok |-> FALSE, page |-> p, err |-> Errorf(PageValid(p))]
        ELSE [ok |-> TRUE, page |-> p, err |-> NoErr]

IsAssigned(p) == p.DocumentID # NilPtr

\* p.AssignToDocument(docID) on the page h[r]
AssignToDocument(h, r, docID) ==
    IF IsAssigned(h[r])
    THEN [heap |-> h, err |-> NewConflictError(NoErr)]
    ELSE [heap |-> [h EXCEPT ![r].DocumentID = Ptr(docID)], err |-> NoErr]

\* p.Unassign() on the page h[r]
Unassign(h, r) == [h EXCEPT ![r].DocumentID = NilPtr]

RECURSIVE UnassignAll(_, _)
UnassignAll(h, refs) ==
    IF refs = <<>> THEN h ELSE UnassignAll(Unassign(h, Head(refs)), Tail(refs))

----------------------------------------------------------------------------
(* Document *)

Range(s) == {s[i] : i \in 1..Len(s)}

\* one step of the insertion sort slices.SortFunc runs on short slices: the
\* element moves left past every element with a greater page number
InsertByPageNumber(h, sorted, r) ==
    LET k == Cardinality({i \in 1..Len(sorted) :
                             h[sorted[i]].PageNumber <= h[r].PageNumber})
    IN  SubSeq(sorted, 1, k) \o <<r>> \o SubSeq(sorted, k + 1, Len(sorted))

RECURSIVE SortFrom(_, _, _)
SortFrom(h, sorted, rest) ==
    IF rest = <<>> THEN sorted
    ELSE SortFrom(h, InsertByPageNumber(h, sorted, Head(rest)), Tail(rest))

\* slices.SortFunc(d.Pages, by PageNumber)
SortPages(h, pages) == SortFrom(h, <<>>, pages)

updatePageNumbers(h, d) ==
    LET sorted == SortPages(h, d.Pages)
    IN  IF Len(sorted) > 0
        THEN [d EXCEPT !.Pages = sorted,
                       !.StartPage = h[sorted[1]].URL,
                       !.EndPage = h[sorted[Len(sorted)]].URL]
        ELSE [d EXCEPT !.Pages = sorted, !.StartPage = EmptyURL, !.EndPage = EmptyURL]

DocumentValid(h, d) ==
    IF d.ID = "" THEN NewValidationError(NoErr)
    ELSE IF d.SplitID = "" THEN NewValidationError(NoErr)
    ELSE IF d.Name = "" THEN NewValidationError(NoErr)
    ELSE IF d.Classification = "" THEN NewValidationError(NoErr)
    ELSE IF d.Filename = "" THEN NewValidationError(NoErr)
    ELSE IF Len(d.Pages) = 0 THEN NewValidationError(NoErr)
    ELSE IF \E i \in 1..Len(d.Pages) : PageValid(h[d.Pages[i]]) # NoErr
         THEN NewValidationError(NewValidationError(NoErr))
    ELSE NoErr

\* the Document struct literal
DocumentLiteral(id, splitID, name, classification, filename, shortDescription, pages) ==
    [ID |-> id, SplitID |-> splitID, Name |-> name, Classification |-> classification,
     Filename |-> filename, ShortDescription |-> shortDescription,
     Pages |-> pages, StartPage |-> EmptyURL, EndPage |-> EmptyURL]

NewDocument(h, id, splitID, name, classification, filename, shortDescription, pages) ==
    LET d == updatePageNumbers(h,
                 DocumentLiteral(id, splitID, name, classification, filename,
                                 shortDescription, pages))
    IN  IF DocumentValid(h, d) # NoErr
        THEN [ok |-> FALSE, doc |-> d, err |-> Errorf(DocumentValid(h, d))]
        ELSE [ok |-> TRUE, doc |-> d, err |-> NoErr]

\* d.AddPages(pages): the loop returns at the first page that is already
\* assigned, keeping what it appended so far and skipping updatePageNumbers
RECURSIVE AddPagesLoop(_, _, _)
AddPagesLoop(h, d, pages) ==
    IF pages = <<>>
    THEN [doc |-> updatePageNumbers(h, d), heap |-> h, err |-> NoErr]
    ELSE LET a == AssignToDocument(h, Head(pages), d.ID)
         IN  IF a.err # NoErr
             THEN [doc |-> d, heap |-> h, err |-> NewValidationError(a.err)]
             ELSE AddPagesLoop(a.heap, [d EXCEPT !.Pages = Append(@, Head(pages))],
                               Tail(pages))

\* AddPages that looks at the whole batch before it appends anything
AddPagesAllOrNothing(h, d, pages) ==
    IF \E k \in 1..Len(pages) : IsAssigned(h[pages[k]])
    THEN [doc |-> d, heap |-> h, err |-> NewValidationError(NewConflictError(NoErr))]
    ELSE AddPagesLoop(h, d, pages)

AddPages(h, d, pages) == AddPagesLoop(h, d, pages)

\* RemovePages that leaves the removed pages assigned
RemovePagesKeepingAssignment(h, d, pageIDs) ==
    IF Len(pageIDs) = 0
    THEN [doc |-> d, heap |-> h, removed |-> <<>>, err |-> NoErr]
    ELSE LET idsToRemove == Range(pageIDs)
             shouldRemove(r) == h[r].ID \in idsToRemove
             shouldKeep(r) == h[r].ID \notin idsToRemove
             removed == SelectSeq(d.Pages, shouldRemove)
             remaining == SelectSeq(d.Pages, shouldKeep)
         IN  IF Len(removed) = 0
             THEN [doc |-> d, heap |-> h, removed |-> <<>>,
                   err |-> NewNotFoundError(NoErr)]
             ELSE [doc |-> updatePageNumbers(h, [d EXCEPT !.Pages = remaining]),
                   heap |-> h, removed |-> removed, err |-> NoErr]

\* RemovePages without the early return for an empty list
RemovePagesWithoutEmptyCase(h, d, pageIDs) ==
    LET idsToRemove == Range(pageIDs)
        shouldRemove(r) == h[r].ID \in idsToRemove
        shouldKeep(r) == h[r].ID \notin idsToRemove
        removed == SelectSeq(d.Pages, shouldRemove)
        remaining == SelectSeq(d.Pages, shouldKeep)
    IN  IF Len(removed) = 0
        THEN [doc |-> d, heap |-> h, removed |-> <<>>,
              err |-> NewNotFoundError(NoErr)]
        ELSE LET h2 == UnassignAll(h, removed)
             IN  [doc |-> updatePageNumbers(h2, [d EXCEPT !.Pages = remaining]),
                  heap |-> h2, removed |-> removed, err |-> NoErr]

\* d.RemovePages(pageIDs): pageIDs is the list of requested IDs
RemovePages(h, d, pageIDs) ==
    IF Len(pageIDs) = 0
    THEN [doc |-> d, heap |-> h, removed |-> <<>>, err |-> NoErr]
    ELSE LET idsToRemove == Range(pageIDs)
             shouldRemove(r) == h[r].ID \in idsToRemove
             shouldKeep(r) == h[r].ID \notin idsToRemove
             removed == SelectSeq(d.Pages, shouldRemove)
             remaining == SelectSeq(d.Pages, shouldKeep)
         IN  IF Len(removed) = 0
             THEN [doc |-> d, heap |-> h, removed |-> <<>>,
                   err |-> NewNotFoundError(NoErr)]
             ELSE LET h2 == UnassignAll(h, removed)
                  IN  [doc |-> updatePageNumbers(h2, [d EXCEPT !.Pages = remaining]),
                       heap |-> h2, removed |-> removed, err |-> NoErr]

\* DocumentMetadata: three optional fields
NoMetadata == [Name |-> NilPtr, Classification |-> NilPtr, ShortDescription |-> NilPtr]

\* UpdateMetadata that writes an absent field as the empty string
UpdateMetadataClearingAbsent(d, metadata) ==
    [doc |-> [d EXCEPT
                !.Name = IF metadata.Name # NilPtr THEN metadata.Name[1] ELSE "",
                !.Classification = IF metadata.Classification # NilPtr
                                   THEN metadata.Classification[1] ELSE "",
                !.ShortDescription = IF metadata.ShortDescription # NilPtr
                                     THEN metadata.ShortDescription[1] ELSE ""],
     err |-> NoErr]

UpdateMetadata(d, metadata) ==
    LET d1 == IF metadata.Name # NilPtr
              THEN [d EXCEPT !.Name = metadata.Name[1]] ELSE d
        d2 == IF metadata.Classification # NilPtr
              THEN [d1 EXCEPT !.Classification = metadata.Classification[1]] ELSE d1
        d3 == IF metadata.ShortDescription # NilPtr
              THEN [d2 EXCEPT !.ShortDescription = metadata.ShortDescription[1]] ELSE d2
    IN  [doc |-> d3, err |-> NoErr]

----------------------------------------------------------------------------
(* Split *)

\* what NewSplit returns with an error: no Split
NoSplit == [ID |-> "", ClientID |-> "", Status |-> "", Documents |-> <<>>,
            UnassignedPages |-> <<>>, FinalizedAt |-> NilPtr]

\* indices of the documents whose ID is docID, in list order
DocIndices(s, docID) == {i \in 1..Len(s.Documents) : s.Documents[i].ID = docID}

Min(S) == CHOOSE x \in S : \A y \in S : x <= y
Max(S) == CHOOSE x \in S : \A y \in S : x >= y

RemoveAt(seq, i) == SubSeq(seq, 1, i - 1) \o SubSeq(seq, i + 1, Len(seq))

\* s.Valid(): the first invalid document's error, wrapped by fmt.Errorf
SplitValid(h, s) ==
    IF s.ID = "" THEN NewValidationError(NoErr)
    ELSE IF s.ClientID = "" THEN NewValidationError(NoErr)
    ELSE LET bad == {i \in 1..Len(s.Documents) : DocumentValid(h, s.Documents[i]) # NoErr}
         IN  IF bad # {} THEN Errorf(DocumentValid(h, s.Documents[Min(bad)]))
             ELSE NoErr

\* Finalize with an error path that puts the status back to draft
FinalizeResettingStatus(h, s, finalizedAt) ==
    IF s.Status = SplitStatusFinalized
    THEN [split |-> [s EXCEPT !.Status = SplitStatusDraft], heap |-> h,
          err |-> NewConflictError(NoErr)]
    ELSE IF Len(s.UnassignedPages) > 0
    THEN [split |-> s, heap |-> h, err |-> NewValidationError(NoErr)]
    ELSE IF SplitValid(h, s) # NoErr
    THEN [split |-> s, heap |-> h, err |-> NewValidationError(SplitValid(h, s))]
    ELSE [split |-> [s EXCEPT !.Status = SplitStatusFinalized,
                              !.FinalizedAt = Ptr(finalizedAt)],
          heap |-> h, err |-> NoErr]

\* Finalize without the check of the unassigned pool
FinalizeIgnoringPool(h, s, finalizedAt) ==
    IF s.Status = SplitStatusFinalized
    THEN [split |-> s, heap |-> h, err |-> NewConflictError(NoErr)]
    ELSE IF SplitValid(h, s) # NoErr
    THEN [split |-> s, heap |-> h, err |-> NewValidationError(SplitValid(h, s))]
    ELSE [split |-> [s EXCEPT !.Status = SplitStatusFinalized,
                              !.FinalizedAt = Ptr(finalizedAt)],
          heap |-> h, err |-> NoErr]

\* Finalize without the check of the status
FinalizeAgain(h, s, finalizedAt) ==
    IF Len(s.UnassignedPages) > 0
    THEN [split |-> s, heap |-> h, err |-> NewValidationError(NoErr)]
    ELSE IF SplitValid(h, s) # NoErr
    THEN [split |-> s, heap |-> h, err |-> NewValidationError(SplitValid(h, s))]
    ELSE [split |-> [s EXCEPT !.Status = SplitStatusFinalized,
                              !.FinalizedAt = Ptr(finalizedAt)],
          heap |-> h, err |-> NoErr]

\* s.Finalize(finalizedAt)
Finalize(h, s, finalizedAt) ==
    IF s.Status = SplitStatusFinalized
    THEN [split |-> s, heap |-> h, err |-> NewConflictError(NoErr)]
    ELSE IF Len(s.UnassignedPages) > 0
    THEN [split |-> s, heap |-> h, err |-> NewValidationError(NoErr)]
    ELSE IF SplitValid(h, s) # NoErr
    THEN [split |-> s, heap |-> h, err |-> NewValidationError(SplitValid(h, s))]
    ELSE [split |-> [s EXCEPT !.Status = SplitStatusFinalized,
                              !.FinalizedAt = Ptr(finalizedAt)],
          heap |-> h, err |-> NoErr]

\* AddDocument without the check of the pages' assignment
AddDocumentWithoutAssignedCheck(h, s, doc) ==
    IF s.Status = SplitStatusFinalized
    THEN [split |-> s, heap |-> h, err |-> NewConflictError(NoErr)]
    ELSE IF DocumentValid(h, doc) # NoErr
    THEN [split |-> s, heap |-> h, err |-> NewValidationError(DocumentValid(h, doc))]
    ELSE IF DocIndices(s, doc.ID) # {}
    THEN [split |-> s, heap |-> h, err |-> NewConflictError(NoErr)]
    ELSE [split |-> [s EXCEPT !.Documents = Append(@, doc)], heap |-> h, err |-> NoErr]

\* s.AddDocument(doc)
AddDocument(h, s, doc) ==
    IF s.Status = SplitStatusFinalized
    THEN [split |-> s, heap |-> h, err |-> NewConflictError(NoErr)]
    ELSE IF DocumentValid(h, doc) # NoErr
    THEN [split |-> s, heap |-> h, err |-> NewValidationError(DocumentValid(h, doc))]
    ELSE IF DocIndices(s, doc.ID) # {}
    THEN [split |-> s, heap |-> h, err |-> NewConflictError(NoErr)]
    ELSE IF \E i \in 1..Len(doc.Pages) : IsAssigned(h[doc.Pages[i]])
    THEN [split |-> s, heap |-> h, err |-> NewConflictError(NoErr)]
    ELSE [split |-> [s EXCEPT !.Documents = Append(@, doc)], heap |-> h, err |-> NoErr]

\* RemoveDocument without the check of the status
RemoveDocumentFromFinalized(h, s, docID) ==
    IF DocIndices(s, docID) = {}
    THEN [split |-> s, heap |-> h, err |-> NewNotFoundError(NoErr)]
    ELSE LET i == Min(DocIndices(s, docID))
             doc == s.Documents[i]
             pageIDs == [k \in 1..Len(doc.Pages) |-> h[doc.Pages[k]].ID]
             rp == RemovePages(h, doc, pageIDs)
         IN  IF rp.err # NoErr
             THEN [split |-> s, heap |-> h, err |-> rp.err]
             ELSE [split |-> [s EXCEPT !.Documents = RemoveAt(@, i),
                                       !.UnassignedPages = @ \o rp.removed],
                   heap |-> rp.heap, err |-> NoErr]

\* RemoveDocument that drops the document's pages instead of pooling them
RemoveDocumentDroppingPages(h, s, docID) ==
    IF s.Status = SplitStatusFinalized
    THEN [split |-> s, heap |-> h, err |-> NewConflictError(NoErr)]
    ELSE IF DocIndices(s, docID) = {}
    THEN [split |-> s, heap |-> h, err |-> NewNotFoundError(NoErr)]
    ELSE LET i == Min(DocIndices(s, docID))
             doc == s.Documents[i]
             pageIDs == [k \in 1..Len(doc.Pages) |-> h[doc.Pages[k]].ID]
             rp == RemovePages(h, doc, pageIDs)
         IN  IF rp.err # NoErr
             THEN [split |-> s, heap |-> h, err |-> rp.err]
             ELSE [split |-> [s EXCEPT !.Documents = RemoveAt(@, i)],
                   heap |-> rp.heap, err |-> NoErr]

\* s.RemoveDocument(docID): the first document with that ID
RemoveDocument(h, s, docID) ==
    IF s.Status = SplitStatusFinalized
    THEN [split |-> s, heap |-> h, err |-> NewConflictError(NoErr)]
    ELSE IF DocIndices(s, docID) = {}
    THEN [split |-> s, heap |-> h, err |-> NewNotFoundError(NoErr)]
    ELSE LET i == Min(DocIndices(s, docID))
             doc == s.Documents[i]
             pageIDs == [k \in 1..Len(doc.Pages) |-> h[doc.Pages[k]].ID]
             rp == RemovePages(h, doc, pageIDs)
         IN  IF rp.err # NoErr
             THEN [split |-> s, heap |-> h, err |-> rp.err]
             ELSE [split |-> [s EXCEPT !.Documents = RemoveAt(@, i),
                                       !.UnassignedPages = @ \o rp.removed],
                   heap |-> rp.heap, err |-> NoErr]

\* MovePages working on a copy of the source document: the removal is not
\* stored in the list
MovePagesOnSourceCopy(h, s, fromDocID, toDocID, pageIDs) ==
    IF s.Status = SplitStatusFinalized
    THEN [split |-> s, heap |-> h, err |-> NewConflictError(NoErr)]
    ELSE IF DocIndices(s, fromDocID) = {}
    THEN [split |-> s, heap |-> h, err |-> NewNotFoundError(NoErr)]
    ELSE IF DocIndices(s, toDocID) = {}
    THEN [split |-> s, heap |-> h, err |-> NewNotFoundError(NoErr)]
    ELSE LET from == Max(DocIndices(s, fromDocID))
             to == Max(DocIndices(s, toDocID))
             toDoc == s.Documents[to]
         IN  IF \E k \in 1..Len(pageIDs) : \E j \in 1..Len(toDoc.Pages) :
                    h[toDoc.Pages[j]].ID = pageIDs[k]
             THEN [split |-> s, heap |-> h, err |-> NewValidationError(NoErr)]
             ELSE LET rp == RemovePages(h, s.Documents[from], pageIDs)
                      ap == AddPages(rp.heap, s.Documents[to], rp.removed)
                      docs2 == [s.Documents EXCEPT ![to] = ap.doc]
                  IN  IF rp.err # NoErr
                      THEN [split |-> s, heap |-> h, err |-> NewValidationError(rp.err)]
                      ELSE IF ap.err # NoErr
                      THEN [split |-> [s EXCEPT !.Documents = docs2], heap |-> ap.heap,
                            err |-> NewValidationError(ap.err)]
                      ELSE [split |-> [s EXCEPT !.Documents = docs2], heap |-> ap.heap,
                            err |-> NoErr]

\* MovePages looking the target up only after the removal from the source
MovePagesLateTargetLookup(h, s, fromDocID, toDocID, pageIDs) ==
    IF s.Status = SplitStatusFinalized
    THEN [split |-> s, heap |-> h, err |-> NewConflictError(NoErr)]
    ELSE IF DocIndices(s, fromDocID) = {}
    THEN [split |-> s, heap |-> h, err |-> NewNotFoundError(NoErr)]
    ELSE LET from == Max(DocIndices(s, fromDocID))
             rp == RemovePages(h, s.Documents[from], pageIDs)
             docs1 == [s.Documents EXCEPT ![from] = rp.doc]
         IN  IF rp.err # NoErr
             THEN [split |-> s, heap |-> h, err |-> NewValidationError(rp.err)]
             ELSE IF DocIndices(s, toDocID) = {}
             THEN [split |-> [s EXCEPT !.Documents = docs1], heap |-> rp.heap,
                   err |-> NewNotFoundError(NoErr)]
             ELSE LET to == Max(DocIndices(s, toDocID))
                      ap == AddPages(rp.heap, docs1[to], rp.removed)
                      docs2 == [docs1 EXCEPT ![to] = ap.doc]
                  IN  IF ap.err # NoErr
                      THEN [split |-> [s EXCEPT !.Documents = docs2], heap |-> ap.heap,
                            err |-> NewValidationError(ap.err)]
                      ELSE [split |-> [s EXCEPT !.Documents = docs2], heap |-> ap.heap,
                            err |-> NoErr]

\* MovePages without the check of the requested pages against the target
MovePagesWithoutTargetCheck(h, s, fromDocID, toDocID, pageIDs) ==
    IF s.Status = SplitStatusFinalized
    THEN [split |-> s, heap |-> h, err |-> NewConflictError(NoErr)]
    ELSE IF DocIndices(s, fromDocID) = {}
    THEN [split |-> s, heap |-> h, err |-> NewNotFoundError(NoErr)]
    ELSE IF DocIndices(s, toDocID) = {}
    THEN [split |-> s, heap |-> h, err |-> NewNotFoundError(NoErr)]
    ELSE LET from == Max(DocIndices(s, fromDocID))
             to == Max(DocIndices(s, toDocID))
             rp == RemovePages(h, s.Documents[from], pageIDs)
             docs1 == [s.Documents EXCEPT ![from] = rp.doc]
             ap == AddPages(rp.heap, docs1[to], rp.removed)
             docs2 == [docs1 EXCEPT ![to] = ap.doc]
         IN  IF rp.err # NoErr
             THEN [split |-> s, heap |-> h, err |-> NewValidationError(rp.err)]
             ELSE IF ap.err # NoErr
             THEN [split |-> [s EXCEPT !.Documents = docs2], heap |-> ap.heap,
                   err |-> NewValidationError(ap.err)]
             ELSE [split |-> [s EXCEPT !.Documents = docs2], heap |-> ap.heap,
                   err |-> NoErr]

\* s.MovePages(fromDocID, toDocID, pageIDs): the lookup loop does not break, so
\* the last document with the ID is the one pointed to
MovePages(h, s, fromDocID, toDocID, pageIDs) ==
    IF s.Status = SplitStatusFinalized
    THEN [split |-> s, heap |-> h, err |-> NewConflictError(NoErr)]
    ELSE IF DocIndices(s, fromDocID) = {}
    THEN [split |-> s, heap |-> h, err |-> NewNotFoundError(NoErr)]
    ELSE IF DocIndices(s, toDocID) = {}
    THEN [split |-> s, heap |-> h, err |-> NewNotFoundError(NoErr)]
    ELSE LET from == Max(DocIndices(s, fromDocID))
             to == Max(DocIndices(s, toDocID))
             toDoc == s.Documents[to]
         IN  IF \E k \in 1..Len(pageIDs) : \E j \in 1..Len(toDoc.Pages) :
                    h[toDoc.Pages[j]].ID = pageIDs[k]
             THEN [split |-> s, heap |-> h, err |-> NewValidationError(NoErr)]
             ELSE LET rp == RemovePages(h, s.Documents[from], pageIDs)
                      docs1 == [s.Documents EXCEPT ![from] = rp.doc]
                      ap == AddPages(rp.heap, docs1[to], rp.removed)
                      docs2 == [docs1 EXCEPT ![to] = ap.doc]
                  IN  IF rp.err # NoErr
                      THEN [split |-> s, heap |-> h, err |-> NewValidationError(rp.err)]
                      ELSE IF ap.err # NoErr
                      THEN [split |-> [s EXCEPT !.Documents = docs2], heap |-> ap.heap,
                            err |-> NewValidationError(ap.err)]
                      ELSE [split |-> [s EXCEPT !.Documents = docs2], heap |-> ap.heap,
                            err |-> NoErr]

\* s.UpdateDocumentMetadata(docID, meta): both failures are fmt.Errorf errors
UpdateDocumentMetadata(h, s, docID, meta) ==
    IF s.Status = SplitStatusFinalized
    THEN [split |-> s, heap |-> h, err |-> Errorf(NoErr)]
    ELSE IF DocIndices(s, docID) = {}
    THEN [split |-> s, heap |-> h, err |-> Errorf(NoErr)]
    ELSE LET i == Min(DocIndices(s, docID))
             um == UpdateMetadata(s.Documents[i], meta)
         IN  [split |-> [s EXCEPT !.Documents[i] = um.doc], heap |-> h, err |-> um.err]

\* the pages of one input document: NewPage for each URL, stopping at the first
\* error
RECURSIVE NewPages(_, _, _, _)
NewPages(h, splitID, urls, pages) ==
    IF urls = <<>> THEN [ok |-> TRUE, heap |-> h, pages |-> pages, err |-> NoErr]
    ELSE LET np == NewPage(Len(h) + 1, splitID, Head(urls))
         IN  IF ~np.ok
             THEN [ok |-> FALSE, heap |-> h, pages |-> pages, err |-> Errorf(np.err)]
             ELSE NewPages(Append(h, np.page), splitID, Tail(urls),
                           Append(pages, Len(h) + 1))

\* the document loop of a NewSplit that leaves out a document it cannot build
\* and goes on with the next
RECURSIVE NewSplitSkippingDocuments(_, _, _)
NewSplitSkippingDocuments(h, s, docData) ==
    IF docData = <<>> THEN [ok |-> TRUE, split |-> s, heap |-> h, err |-> NoErr]
    ELSE LET dd == Head(docData)
             np == NewPages(h, s.ID, dd.page_urls, <<>>)
             nd == NewDocument(np.heap, dd.id, s.ID, dd.name, dd.classification,
                               dd.file_name, dd.short_description, np.pages)
         IN  IF ~np.ok \/ ~nd.ok
             THEN NewSplitSkippingDocuments(np.heap, s, Tail(docData))
             ELSE NewSplitSkippingDocuments(np.heap,
                                            [s EXCEPT !.Documents = Append(@, nd.doc)],
                                            Tail(docData))

\* the document loop of NewSplit
RECURSIVE NewSplitDocuments(_, _, _)
NewSplitDocuments(h, s, docData) ==
    IF docData = <<>> THEN [ok |-> TRUE, split |-> s, heap |-> h, err |-> NoErr]
    ELSE LET dd == Head(docData)
             np == NewPages(h, s.ID, dd.page_urls, <<>>)
             nd == NewDocument(np.heap, dd.id, s.ID, dd.name, dd.classification,
                               dd.file_name, dd.short_description, np.pages)
         IN  IF ~np.ok THEN [ok |-> FALSE, split |-> NoSplit, heap |-> np.heap, err |-> np.err]
             ELSE IF ~nd.ok
             THEN [ok |-> FALSE, split |-> NoSplit, heap |-> np.heap, err |-> Errorf(nd.err)]
             ELSE NewSplitDocuments(np.heap, [s EXCEPT !.Documents = Append(@, nd.doc)],
                                    Tail(docData))

\* NewSplit(jsonRepr), jsonRepr already unmarshalled into splitData
NewSplit(splitData) ==
    LET s0 == [ID |-> splitData.split_id, ClientID |-> splitData.client_id,
               Status |-> splitData.status, Documents |-> <<>>,
               UnassignedPages |-> <<>>, FinalizedAt |-> NilPtr]
        r == NewSplitDocuments(<<>>, s0, splitData.documents)
    IN  IF ~r.ok THEN r
        ELSE IF SplitValid(r.heap, r.split) # NoErr
        THEN [ok |-> FALSE, split |-> NoSplit, heap |-> r.heap,
              err |-> Errorf(SplitValid(r.heap, r.split))]
        ELSE r

----------------------------------------------------------------------------
(* Storage: the SQLite tables and the reconciling repository *)

\* a TEXT value is the sequence of its character codes; SQLite compares TEXT
\* values byte by byte, a proper prefix being the smaller
RECURSIVE TextLess(_, _)
TextLess(a, b) ==
    IF b = <<>> THEN FALSE
    ELSE IF a = <<>> THEN TRUE
    ELSE IF Head(a) # Head(b) THEN Head(a) < Head(b)
    ELSE TextLess(Tail(a), Tail(b))

\* the decimal digits of a natural number, as character codes
RECURSIVE Itoa(_)
Itoa(n) == IF n < 10 THEN <<48 + n>> ELSE Append(Itoa(n \div 10), 48 + (n % 10))

\* the number a digit string stands for (database/sql converts the TEXT value
\* of page_number with strconv.ParseInt when Scan stores it in an int)
RECURSIVE Atoi(_)
Atoi(text) ==
    IF text = <<>> THEN 0
    ELSE 10 * Atoi(SubSeq(text, 1, Len(text) - 1)) + (text[Len(text)] - 48)

\* the characters of a URL: "page_" or "scan_", the digits, ".png"
URLText(url) ==
    IF url = EmptyURL THEN <<>>
    ELSE (IF url[1] = "page_" THEN <<112, 97, 103, 101, 95>>
                               ELSE <<115, 99, 97, 110, 95>>)
         \o Itoa(url[2]) \o <<46, 112, 110, 103>>

\* a table is a function from the primary key (the id column) to the other
\* columns of the row; created_at and updated_at are left out
EmptyTable == <<>>
EmptyDB == [splits |-> EmptyTable, documents |-> EmptyTable, pages |-> EmptyTable]

\* INSERT ... ON CONFLICT(id) DO UPDATE SET every other column
Upsert(table, id, row) ==
    [k \in DOMAIN table \cup {id} |-> IF k = id THEN row ELSE table[k]]

\* DELETE of the rows whose key is in ids
DeleteRows(table, ids) == [k \in DOMAIN table \ ids |-> table[k]]

\* the column document_id: NULL is the nil pointer
SQLNull == NilPtr

\* the sequences that list every element of S once, in an order that ORDER BY
\* allows when key[x] is the value of the ordering column in row x: rows with
\* equal keys come in any order
Orderings(S, key) ==
    {o \in [1..Cardinality(S) -> S] :
        /\ \A i \in 1..Cardinality(S), j \in 1..Cardinality(S) : i # j => o[i] # o[j]
        /\ \A i \in 1..(Cardinality(S) - 1) : ~TextLess(key[o[i + 1]], key[o[i]])}

\* the Page that getPages and getUnassignedPages scan from a row: the column
\* document_id is not selected, so DocumentID stays nil
ScanPage(d, pageID) ==
    [ID |-> pageID, SplitID |-> d.pages[pageID].split_id, DocumentID |-> NilPtr,
     PageNumber |-> Atoi(d.pages[pageID].page_number), URL |-> d.pages[pageID].url]

\* the row orders the three queries of Get can return: the documents of the
\* split by start_page, the pages of each document and the unassigned pages of
\* the split by page_number
GetOrders(d, id) ==
    LET docIDs == {x \in DOMAIN d.documents : d.documents[x].split_id = id}
        pagesOf(x) == {p \in DOMAIN d.pages : d.pages[p].document_id = Ptr(x)}
        unassigned == {p \in DOMAIN d.pages :
                          d.pages[p].split_id = id /\ d.pages[p].document_id = SQLNull}
        pageOrders(S) == Orderings(S, [p \in S |-> d.pages[p].page_number])
    IN  {[docs |-> o, pages |-> po, pool |-> u] :
            o \in Orderings(docIDs, [x \in docIDs |-> URLText(d.documents[x].start_page)]),
            po \in {f \in [docIDs -> UNION {pageOrders(pagesOf(x)) : x \in docIDs}] :
                       \A x \in docIDs : f[x] \in pageOrders(pagesOf(x))},
            u \in pageOrders(unassigned)}

\* the Documents that getDocuments builds from the rows in the order o.docs,
\* allocating each document's Page objects after the ones in h
RECURSIVE ScanDocuments(_, _, _, _, _)
ScanDocuments(d, o, k, h, docs) ==
    IF k > Len(o.docs) THEN [heap |-> h, docs |-> docs]
    ELSE LET x == o.docs[k]
             row == d.documents[x]
             n == Len(o.pages[x])
             doc == [ID |-> x, SplitID |-> row.split_id, Name |-> row.name,
                     Classification |-> row.classification, Filename |-> row.filename,
                     ShortDescription |-> row.short_description,
                     Pages |-> [i \in 1..n |-> Len(h) + i],
                     StartPage |-> row.start_page, EndPage |-> row.end_page]
         IN  ScanDocuments(d, o, k + 1,
                           h \o [i \in 1..n |-> ScanPage(d, o.pages[x][i])],
                           Append(docs, doc))

\* r.Get(ctx, id) when the rows come in the order o: nil without a splits row;
\* there is no column for FinalizedAt
GetInOrder(d, id, o) ==
    IF id \notin DOMAIN d.splits
    THEN [found |-> FALSE, split |-> NoSplit, heap |-> <<>>]
    ELSE LET sd == ScanDocuments(d, o, 1, <<>>, <<>>)
             n == Len(o.pool)
         IN  [found |-> TRUE,
              split |-> [ID |-> id, ClientID |-> d.splits[id].client_id,
                         Status |-> d.splits[id].status, Documents |-> sd.docs,
                         UnassignedPages |-> [i \in 1..n |-> Len(sd.heap) + i],
                         FinalizedAt |-> NilPtr],
              heap |-> sd.heap \o [i \in 1..n |-> ScanPage(d, o.pool[i])]]

\* the results r.Get(ctx, id) can have
Get(d, id) == {GetInOrder(d, id, o) : o \in GetOrders(d, id)}

\* r.GetSplitIDByDocumentID(ctx, documentID): the error for a missing row is
\* built by fmt.Errorf without a cause
GetSplitIDByDocumentID(d, documentID) ==
    IF documentID \in DOMAIN d.documents
    THEN [splitID |-> d.documents[documentID].split_id, err |-> NoErr]
    ELSE [splitID |-> "", err |-> Errorf(NoErr)]

\* the row Save writes for page h[r], with the given document_id
PageRow(h, r, documentID) ==
    [split_id |-> h[r].SplitID, document_id |-> documentID,
     page_number |-> Itoa(h[r].PageNumber), url |-> h[r].URL]

RECURSIVE UpsertPages(_, _, _, _)
UpsertPages(pages, h, refs, documentID) ==
    IF refs = <<>> THEN pages
    ELSE UpsertPages(Upsert(pages, h[Head(refs)].ID, PageRow(h, Head(refs), documentID)),
                     h, Tail(refs), documentID)

\* the loop "Save documents": each document's row, then its pages' rows
RECURSIVE UpsertDocuments(_, _, _)
UpsertDocuments(d, h, docs) ==
    IF docs = <<>> THEN d
    ELSE LET doc == Head(docs)
             row == [split_id |-> doc.SplitID, name |-> doc.Name,
                     classification |-> doc.Classification, filename |-> doc.Filename,
                     short_description |-> doc.ShortDescription,
                     start_page |-> doc.StartPage, end_page |-> doc.EndPage]
         IN  UpsertDocuments([d EXCEPT !.documents = Upsert(@, doc.ID, row),
                                       !.pages = UpsertPages(@, h, doc.Pages, Ptr(doc.ID))],
                             h, Tail(docs))

\* the five parts of Save, in the order of the code
SaveParts == <<"split", "deleteDocuments", "deletePages", "documents", "unassigned">>

\* one part of r.Save(ctx, split) on the tables d
SavePart(d, h, s, part) ==
    IF part = "split"
    THEN [d EXCEPT !.splits = Upsert(@, s.ID, [client_id |-> s.ClientID,
                                               status |-> s.Status])]
    ELSE IF part = "deleteDocuments"
    THEN LET docIDs == {s.Documents[i].ID : i \in 1..Len(s.Documents)}
             toDeleteDocIDs == {x \in DOMAIN d.documents :
                                   d.documents[x].split_id = s.ID /\ x \notin docIDs}
         IN  [d EXCEPT !.documents = DeleteRows(@, toDeleteDocIDs),
                       !.pages = DeleteRows(@, {p \in DOMAIN d.pages :
                                     \E x \in toDeleteDocIDs :
                                         d.pages[p].document_id = Ptr(x)})]
    ELSE IF part = "deletePages"
    THEN LET refs == UNION {Range(s.Documents[i].Pages) : i \in 1..Len(s.Documents)}
                         \cup Range(s.UnassignedPages)
             pageIDs == {h[r].ID : r \in refs}
         IN  [d EXCEPT !.pages = DeleteRows(@, {p \in DOMAIN d.pages :
                                     d.pages[p].split_id = s.ID /\ p \notin pageIDs})]
    ELSE IF part = "documents"
    THEN UpsertDocuments(d, h, s.Documents)
    ELSE [d EXCEPT !.pages = UpsertPages(@, h, s.UnassignedPages, SQLNull)]

\* the tables after the first k parts of Save
RECURSIVE SaveUpTo(_, _, _, _)
SaveUpTo(d, h, s, k) ==
    IF k = 0 THEN d ELSE SavePart(SaveUpTo(d, h, s, k - 1), h, s, SaveParts[k])

\* Save that stops before the rows of the unassigned pages
SaveWithoutUnassigned(d, h, s) == SaveUpTo(d, h, s, Len(SaveParts) - 1)

\* Save writing the split row and the rows of the documents and pages, without
\* the two deleting parts
SaveWithoutDeletes(d, h, s) ==
    SavePart(SavePart(SavePart(d, h, s, "split"), h, s, "documents"), h, s, "unassigned")

\* r.Save(ctx, split) when no statement fails
Save(d, h, s) == SaveUpTo(d, h, s, Len(SaveParts))

\* one statement executed on the tables d (r.tx.ExecContext)
ExecContext(d, st) ==
    IF st.sql = "UPSERT splits"
    THEN [d EXCEPT !.splits = Upsert(@, st.id, st.row)]
    ELSE IF st.sql = "UPSERT documents"
    THEN [d EXCEPT !.documents = Upsert(@, st.id, st.row)]
    ELSE IF st.sql = "UPSERT pages"
    THEN [d EXCEPT !.pages = Upsert(@, st.id, st.row)]
    ELSE IF st.sql = "DELETE FROM documents WHERE id"
    THEN [d EXCEPT !.documents = DeleteRows(@, {st.id})]
    ELSE IF st.sql = "DELETE FROM pages WHERE document_id"
    THEN [d EXCEPT !.pages = DeleteRows(@, {p \in DOMAIN d.pages :
                                              d.pages[p].document_id = Ptr(st.id)})]
    ELSE IF st.sql = "DELETE FROM pages WHERE id"
    THEN [d EXCEPT !.pages = DeleteRows(@, {st.id})]
    ELSE IF st.sql = "DELETE FROM pages WHERE split_id"
    THEN [d EXCEPT !.pages = DeleteRows(@, {p \in DOMAIN d.pages :
                                              d.pages[p].split_id = st.id})]
    ELSE IF st.sql = "DELETE FROM documents WHERE split_id"
    THEN [d EXCEPT !.documents = DeleteRows(@, {x \in DOMAIN d.documents :
                                                  d.documents[x].split_id = st.id})]
    ELSE [d EXCEPT !.splits = DeleteRows(@, {st.id})] \* DELETE FROM splits WHERE id

\* the tables after each statement of the list, executed one after the other
RECURSIVE TablesAfterEach(_, _)
TablesAfterEach(d, statements) ==
    IF statements = <<>> THEN <<>>
    ELSE <<ExecContext(d, Head(statements))>>
         \o TablesAfterEach(ExecContext(d, Head(statements)), Tail(statements))

\* the tables after the last statement of a trace that started on d
LastTables(d, trace) == IF trace = <<>> THEN d ELSE trace[Len(trace)]

\* the statements of the loop over toDeleteDocIDs, in the order ids
RECURSIVE DeleteDocumentStatements(_)
DeleteDocumentStatements(ids) ==
    IF ids = <<>> THEN <<>>
    ELSE <<[sql |-> "DELETE FROM documents WHERE id", id |-> Head(ids)],
           [sql |-> "DELETE FROM pages WHERE document_id", id |-> Head(ids)]>>
         \o DeleteDocumentStatements(Tail(ids))

\* the statements of the loop "Save documents"
RECURSIVE SaveDocumentStatements(_, _)
SaveDocumentStatements(h, docs) ==
    IF docs = <<>> THEN <<>>
    ELSE LET doc == Head(docs)
         IN  <<[sql |-> "UPSERT documents", id |-> doc.ID,
                row |-> [split_id |-> doc.SplitID, name |-> doc.Name,
                         classification |-> doc.Classification,
                         filename |-> doc.Filename,
                         short_description |-> doc.ShortDescription,
                         start_page |-> doc.StartPage, end_page |-> doc.EndPage]]>>
             \o [i \in 1..Len(doc.Pages) |->
                    [sql |-> "UPSERT pages", id |-> h[doc.Pages[i]].ID,
                     row |-> PageRow(h, doc.Pages[i], Ptr(doc.ID))]]
             \o SaveDocumentStatements(h, Tail(docs))

\* r.Save(ctx, split) statement by statement: the traces of tables, one entry
\* after each statement, for each order in which the two SELECTs without ORDER
\* BY can list the rows to delete
SaveTraces(d, h, s) ==
    LET t1 == TablesAfterEach(d, <<[sql |-> "UPSERT splits", id |-> s.ID,
                                    row |-> [client_id |-> s.ClientID,
                                             status |-> s.Status]]>>)
        d1 == LastTables(d, t1)
        docIDs == {s.Documents[i].ID : i \in 1..Len(s.Documents)}
        toDeleteDocIDs == {x \in DOMAIN d1.documents :
                              d1.documents[x].split_id = s.ID /\ x \notin docIDs}
        refs == UNION {Range(s.Documents[i].Pages) : i \in 1..Len(s.Documents)}
                    \cup Range(s.UnassignedPages)
        pageIDs == {h[r].ID : r \in refs}
        toDeletePageIDs(d2) == {p \in DOMAIN d2.pages :
                                   d2.pages[p].split_id = s.ID /\ p \notin pageIDs}
        unordered(S) == Orderings(S, [x \in S |-> <<>>])
        upserts == SaveDocumentStatements(h, s.Documents)
                   \o [i \in 1..Len(s.UnassignedPages) |->
                          [sql |-> "UPSERT pages", id |-> h[s.UnassignedPages[i]].ID,
                           row |-> PageRow(h, s.UnassignedPages[i], SQLNull)]]
    IN  UNION {LET t2 == TablesAfterEach(d1, DeleteDocumentStatements(od))
                   d2 == LastTables(d1, t2)
               IN  {LET t3 == TablesAfterEach(d2,
                                 [i \in 1..Len(op) |->
                                     [sql |-> "DELETE FROM pages WHERE id", id |-> op[i]]])
                        d3 == LastTables(d2, t3)
                    IN  t1 \o t2 \o t3 \o TablesAfterEach(d3, upserts) :
                       op \in unordered(toDeletePageIDs(d2))} :
                  od \in unordered(toDeleteDocIDs)}

\* r.Delete(ctx, id) statement by statement
DeleteTrace(d, id) ==
    TablesAfterEach(d, <<[sql |-> "DELETE FROM pages WHERE split_id", id |-> id],
                         [sql |-> "DELETE FROM documents WHERE split_id", id |-> id],
                         [sql |-> "DELETE FROM splits WHERE id", id |-> id]>>)

----------------------------------------------------------------------------
(* SplitService: what each operation does between Begin and Save *)

\* the lookup the operation starts with: UpdateDocumentMetadata and
\* DeleteDocument ask the repository for the split of the document, the others
\* carry the split ID in the request
ServiceLookup(d, req) ==
    IF req.op \in {"UpdateDocumentMetadata", "DeleteDocument"}
    THEN LET l == GetSplitIDByDocumentID(d, req.id)
         IN  IF l.err # NoErr THEN l
             ELSE IF l.splitID = "" THEN [splitID |-> "", err |-> ErrNotFound]
             ELSE l
    ELSE [splitID |-> req.id, err |-> NoErr]

\* CreateDocument that leaves the chosen pages in the unassigned pool
CreateDocumentKeepingPool(h, s, req, docID) ==
    LET requested(r) == h[r].ID \in Range(req.PageIDs)
        pages == SelectSeq(s.UnassignedPages, requested)
        doc == DocumentLiteral(docID, req.id, req.Name, req.Classification,
                               req.Filename, req.ShortDescription, pages)
    IN  IF Len(pages) = 0
        THEN [split |-> s, heap |-> h, err |-> NewValidationError(NoErr)]
        ELSE AddDocument(h, s, doc)

\* CreateDocument on the loaded split: the requested pages of the pool, in pool
\* order, go to a Document literal with the fresh ID, which AddDocument takes
CreateDocumentOnSplit(h, s, req, docID) ==
    LET requested(r) == h[r].ID \in Range(req.PageIDs)
        notRequested(r) == h[r].ID \notin Range(req.PageIDs)
        pages == SelectSeq(s.UnassignedPages, requested)
        remainingUnassigned == SelectSeq(s.UnassignedPages, notRequested)
        doc == DocumentLiteral(docID, req.id, req.Name, req.Classification,
                               req.Filename, req.ShortDescription, pages)
    IN  IF Len(pages) = 0
        THEN [split |-> s, heap |-> h, err |-> NewValidationError(NoErr)]
        ELSE AddDocument(h, [s EXCEPT !.UnassignedPages = remainingUnassigned], doc)

\* the domain call of the operation on the result g of Get; docID is the
\* uuid.NewString() of CreateDocument
ServiceMutate(req, g, docID) ==
    IF ~g.found THEN [split |-> g.split, heap |-> g.heap, err |-> ErrNotFound]
    ELSE IF req.op = "UpdateDocumentMetadata"
    THEN UpdateDocumentMetadata(g.heap, g.split, req.id, req.metadata)
    ELSE IF req.op = "MovePages"
    THEN MovePages(g.heap, g.split, req.FromDocumentID, req.ToDocumentID, req.PageIDs)
    ELSE IF req.op = "CreateDocument"
    THEN CreateDocumentOnSplit(g.heap, g.split, req, docID)
    ELSE IF req.op = "DeleteDocument"
    THEN RemoveDocument(g.heap, g.split, req.id)
    ELSE Finalize(g.heap, g.split, req.now)

\* the outcomes of the operation on the committed tables d when no statement
\* fails and no other Unit of Work is open: the error it returns and the
\* tables after its Commit, or the error and the tables as they were
ServiceRun(d, req, docID) ==
    LET l == ServiceLookup(d, req)
    IN  IF l.err # NoErr THEN {[db |-> d, err |-> l.err]}
        ELSE {LET m == ServiceMutate(req, g, docID)
              IN  IF m.err # NoErr THEN [db |-> d, err |-> m.err]
                  ELSE [db |-> Save(d, m.heap, m.split), err |-> NoErr] :
                 g \in Get(d, l.splitID)}

----------------------------------------------------------------------------
(* Units of Work: one SQLite transaction each *)

\* the Units of Work that can be open at a time (two requests in progress)
UoWs == {"u1", "u2"}

\* number of service operations that start
MaxOps == 2

\* the values of uuid.NewString(), one for each operation
UUIDs == <<"x1", "x2", "x3", "x4">>

\* a Unit of Work of an operation: where the operation is (pc), its request,
\* the aggregate it holds, the committed tables at its first read (before),
\* the tables as its transaction sees them (view), whether it has written,
\* and the error it is returning
IdleUoW ==
    [pc |-> "idle", req |-> <<>>, split |-> NoSplit, heap |-> <<>>,
     before |-> EmptyDB, view |-> EmptyDB, wrote |-> FALSE, err |-> NoErr]

\* transactions that take no lock when they read
HoldsNoLock(w) == FALSE

\* SQLite's locks: a transaction holds a SHARED lock from its first read and a
\* RESERVED lock from its first write, both until it commits or rolls back
HoldsShared(w) == w.pc \in {"loaded", "saved", "failing"}
HoldsReserved(w) == HoldsShared(w) /\ w.wrote

\* Save in the transaction of w writing straight to the committed tables
ExecAutoCommit(d, w, k) ==
    [db |-> SaveUpTo(w.view, w.heap, w.split, k),
     view |-> SaveUpTo(w.view, w.heap, w.split, k)]

\* the first k parts of Save executed on the transaction of w (r.tx.ExecContext):
\* the committed tables d stay as they are
Exec(d, w, k) == [db |-> d, view |-> SaveUpTo(w.view, w.heap, w.split, k)]

\* u.tx.Commit(): the writes of the transaction become the committed tables
Commit(d, w) == w.view

\* Rollback that restores the tables of before the transaction, also when the
\* transaction is committed
RollbackRestoring(d, w) == w.before

\* u.tx.Rollback(): the writes of an open transaction are dropped; on a
\* committed transaction it returns sql.ErrTxDone and changes nothing
Rollback(d, w) == d

----------------------------------------------------------------------------
(* Inputs *)

\* lists without repetition, of length at most two, over S
ShortLists(S) ==
    {<<>>} \cup {<<a>> : a \in S} \cup {<<p[1], p[2]>> : p \in {q \in S \X S : q[1] # q[2]}}

\* lists of at most n elements of S
RECURSIVE ListsUpTo(_, _)
ListsUpTo(S, n) ==
    IF n = 0 THEN {<<>>}
    ELSE ListsUpTo(S, n - 1) \cup
         {Append(l, x) : l \in {m \in ListsUpTo(S, n - 1) : Len(m) = n - 1}, x \in S}

\* the page_urls of an input document: none, one page, two pages out of order,
\* a URL that is not a page URL
URLLists == {<<>>, <<PageURL(1)>>, <<PageURL(2), PageURL(1)>>, <<BadURL>>}

\* the documents of the input JSON
DocData ==
    [id : DocIDs \cup {""}, classification : {"c1"}, file_name : {"f1"},
     name : {"n1"}, short_description : {"s1"}, page_urls : URLLists]

RECURSIVE CountURLs(_)
CountURLs(docData) ==
    IF docData = <<>> THEN 0
    ELSE Len(Head(docData).page_urls) + CountURLs(Tail(docData))

\* the input JSON of NewSplit, naming at most MaxPages pages
SplitData ==
    {j \in [split_id : {"s1", ""}, client_id : {"c1", ""},
            status : {SplitStatusDraft, SplitStatusFinalized},
            documents : ListsUpTo(DocData, MaxDocs)] :
        CountURLs(j.documents) <= MaxPages}

\* the DocumentMetadata values of a request
Metadata ==
    {NoMetadata,
     [NoMetadata EXCEPT !.Name = Ptr("")],
     [Name |-> Ptr("n1"), Classification |-> Ptr("c1"), ShortDescription |-> Ptr("s1")]}

\* the page ID lists of a MovePages request, over the IDs of allocated and of
\* unknown pages: RemovePages and the check against the target read the list as a
\* set, so ascending lists stand for all
PageIDLists == {l \in ShortLists(1..MaxPages) : Len(l) = 2 => l[1] < l[2]}

----------------------------------------------------------------------------
(* The state machine: one Split, the calls made on it *)

Init ==
    \E j \in SplitData :
        LET r == NewSplit(j)
        IN  /\ r.ok
            /\ split = r.split
            /\ heap = r.heap
            /\ added = 0
            /\ db = EmptyDB
            /\ uow = [u \in UoWs |-> IdleUoW]
            /\ ops = 0

\* the caller makes a Page with NewPage and keeps it
NewPageCall ==
    /\ Len(heap) < MaxPages
    /\ \E url \in {PageURL(2), BadURL} :
          LET np == NewPage(Len(heap) + 1, split.ID, url)
          IN  heap' = IF np.ok THEN Append(heap, np.page) ELSE heap
    /\ UNCHANGED <<split, added, store>>

\* the documents a caller can pass, over at most one Page object it holds:
\* built by NewDocument, or as a struct literal (as SplitService.CreateDocument
\* does), which may be invalid
InputDocuments ==
    LET valid == {DocumentLiteral(id, split.ID, "n1", "c1", "f1", "s1", <<r>>) :
                     id \in DocIDs, r \in DOMAIN heap}
        news == {NewDocument(heap, d.ID, d.SplitID, d.Name, d.Classification,
                             d.Filename, d.ShortDescription, d.Pages).doc : d \in valid}
        invalid == {DocumentLiteral("d2", split.ID, "n1", "c1", "f1", "s1", <<>>)}
                   \cup {DocumentLiteral("", split.ID, "n1", "c1", "f1", "s1", <<r>>) :
                            r \in DOMAIN heap}
                   \cup {DocumentLiteral("d2", split.ID, "", "c1", "f1", "s1", <<r>>) :
                            r \in DOMAIN heap}
    IN  valid \cup news \cup invalid

AddDocumentCall ==
    \E doc \in InputDocuments :
        LET r == AddDocument(heap, split, doc)
        IN  /\ r.err = NoErr => added < MaxAdds
            /\ split' = r.split
            /\ heap' = r.heap
            /\ added' = IF r.err = NoErr THEN added + 1 ELSE added
            /\ UNCHANGED store

RemoveDocumentCall ==
    \E docID \in DocIDs :
        LET r == RemoveDocument(heap, split, docID)
        IN  /\ split' = r.split
            /\ heap' = r.heap
            /\ UNCHANGED <<added, store>>

MovePagesCall ==
    \E fromDocID \in DocIDs, toDocID \in DocIDs, pageIDs \in PageIDLists :
        LET r == MovePages(heap, split, fromDocID, toDocID, pageIDs)
        IN  /\ split' = r.split
            /\ heap' = r.heap
            /\ UNCHANGED <<added, store>>

UpdateDocumentMetadataCall ==
    \E docID \in DocIDs, meta \in Metadata :
        LET r == UpdateDocumentMetadata(heap, split, docID, meta)
        IN  /\ split' = r.split
            /\ heap' = r.heap
            /\ UNCHANGED <<added, store>>

FinalizeCall ==
    \E finalizedAt \in Times :
        LET r == Finalize(heap, split, finalizedAt)
        IN  /\ split' = r.split
            /\ heap' = r.heap
            /\ UNCHANGED <<added, store>>

Next ==
    \/ NewPageCall
    \/ AddDocumentCall
    \/ RemoveDocumentCall
    \/ MovePagesCall
    \/ UpdateDocumentMetadataCall
    \/ FinalizeCall

Spec == Init /\ [][Next]_vars

----------------------------------------------------------------------------
(* The Document methods called on a document of the Split *)

\* the page batches of an AddPages call: at most two Page objects the caller
\* holds, one of them possibly twice
PageBatches == ShortLists(DOMAIN heap) \cup {<<r, r>> : r \in DOMAIN heap}

\* split.Documents[i].AddPages(pages)
AddPagesCall ==
    \E i \in 1..Len(split.Documents), pages \in PageBatches :
        LET r == AddPages(heap, split.Documents[i], pages)
        IN  /\ split' = [split EXCEPT !.Documents[i] = r.doc]
            /\ heap' = r.heap
            /\ UNCHANGED <<added, store>>

\* split.Documents[i].RemovePages(pageIDs)
RemovePagesCall ==
    \E i \in 1..Len(split.Documents), pageIDs \in PageIDLists :
        LET r == RemovePages(heap, split.Documents[i], pageIDs)
        IN  /\ split' = [split EXCEPT !.Documents[i] = r.doc]
            /\ heap' = r.heap
            /\ UNCHANGED <<added, store>>

DocNext ==
    \/ NewPageCall
    \/ AddPagesCall
    \/ RemovePagesCall

\* the status plays no part in the Document methods: draft Splits only
DocInit == Init /\ split.Status = SplitStatusDraft

DocSpec == DocInit /\ [][DocNext]_vars

----------------------------------------------------------------------------
(* The service on the storage: operations of SplitService, step by step *)

\* the input JSON of the persisted Split: document d1 with page_10.png and
\* page_2.png, document d2 with page_1.png (Page IDs 1, 2 and 3)
StoredSplitData ==
    [split_id |-> "s1", client_id |-> "c1", status |-> SplitStatusDraft,
     documents |->
        <<[id |-> "d1", classification |-> "c1", file_name |-> "f1", name |-> "n1",
           short_description |-> "s1", page_urls |-> <<PageURL(10), PageURL(2)>>],
          [id |-> "d2", classification |-> "c1", file_name |-> "f1", name |-> "n1",
           short_description |-> "s1", page_urls |-> <<PageURL(1)>>]>>]

\* the aggregates the storage starts from: the Split of NewSplit, and the same
\* with d2 removed and its page in the unassigned pool
StoredAggregates ==
    LET r == NewSplit(StoredSplitData)
        rd == RemoveDocument(r.heap, r.split, "d2")
    IN  {[split |-> r.split, heap |-> r.heap], [split |-> rd.split, heap |-> rd.heap]}

\* the requests of the service operations; id is the document ID of
\* UpdateDocumentMetadata and DeleteDocument and the split ID of the others
ServiceRequests ==
    {[op |-> "UpdateDocumentMetadata", id |-> id,
      metadata |-> [NoMetadata EXCEPT !.Name = Ptr("n2")]] : id \in DocIDs}
    \cup {[op |-> "MovePages", id |-> "s1", FromDocumentID |-> "d1",
           ToDocumentID |-> "d2", PageIDs |-> ids] : ids \in {<<1>>, <<1, 2>>}}
    \cup {[op |-> "MovePages", id |-> "s1", FromDocumentID |-> "d2",
           ToDocumentID |-> "d1", PageIDs |-> <<3>>]}
    \cup {[op |-> "CreateDocument", id |-> "s1", Name |-> name, Classification |-> "c1",
           Filename |-> "f1", ShortDescription |-> "s1", PageIDs |-> ids] :
             name \in {"n1", ""}, ids \in {<<3>>, <<1, 3>>, <<1>>}}
    \cup {[op |-> "DeleteDocument", id |-> id] : id \in DocIDs}
    \cup {[op |-> "FinalizeSplit", id |-> id, now |-> now] :
             id \in {"s1", "s2"}, now \in Times}

StoreInit ==
    /\ split = NoSplit
    /\ heap = <<>>
    /\ added = 0
    /\ \E a \in StoredAggregates : db = Save(EmptyDB, a.heap, a.split)
    /\ uow = [u \in UoWs |-> IdleUoW]
    /\ ops = 0

\* the operation up to its Save: uowFactory (Begin), the lookup, Get and the
\* domain call; a failing read or a refusal sends it to its return
StartOperation(u) ==
    /\ ops < MaxOps
    /\ uow[u].pc = "idle"
    /\ \E req \in ServiceRequests :
          LET l == ServiceLookup(db, req)
              w == [IdleUoW EXCEPT !.req = req, !.before = db, !.view = db]
          IN  \/ uow' = [uow EXCEPT ![u] = [w EXCEPT !.pc = "failing",
                                                     !.err = Errorf(<<PlainError>>)]]
              \/ /\ l.err # NoErr
                 /\ uow' = [uow EXCEPT ![u] = [w EXCEPT !.pc = "failing", !.err = l.err]]
              \/ /\ l.err = NoErr
                 /\ \E g \in Get(db, l.splitID) :
                       LET m == ServiceMutate(req, g, UUIDs[ops + 1])
                       IN  uow' = [uow EXCEPT ![u] =
                                     [w EXCEPT !.pc = IF m.err = NoErr THEN "loaded"
                                                      ELSE "failing",
                                               !.split = m.split, !.heap = m.heap,
                                               !.err = m.err]]
    /\ ops' = ops + 1
    /\ UNCHANGED <<split, heap, added, db>>

\* uow.SplitRepository().Save: all parts, or the parts before a failing
\* statement; while another transaction holds the RESERVED lock the first
\* statement fails with SQLITE_BUSY
SaveStep(u) ==
    /\ uow[u].pc = "loaded"
    /\ \E k \in 0..Len(SaveParts) :
          LET busy == \E v \in UoWs \ {u} : HoldsReserved(uow[v])
              e == Exec(db, uow[u], k)
          IN  /\ busy => k = 0
              /\ db' = e.db
              /\ uow' = [uow EXCEPT ![u].view = e.view,
                                    ![u].wrote = (k > 0),
                                    ![u].pc = IF k = Len(SaveParts) THEN "saved"
                                              ELSE "failing",
                                    ![u].err = IF k = Len(SaveParts) THEN NoErr
                                               ELSE Errorf(<<PlainError>>)]
    /\ UNCHANGED <<split, heap, added, ops>>

\* uow.Commit: it needs the EXCLUSIVE lock, which SQLite grants when no other
\* transaction holds a SHARED lock; otherwise, or on a failing write, it
\* returns an error and the transaction is rolled back
CommitStep(u) ==
    /\ uow[u].pc = "saved"
    /\ \/ /\ \A v \in UoWs \ {u} : ~HoldsShared(uow[v])
          /\ db' = Commit(db, uow[u])
          /\ uow' = [uow EXCEPT ![u].pc = "committed"]
       \/ /\ db' = db
          /\ uow' = [uow EXCEPT ![u].pc = "failing", ![u].err = <<PlainError>>]
    /\ UNCHANGED <<split, heap, added, ops>>

\* the deferred uow.Rollback and the return of the operation
RollbackStep(u) ==
    /\ uow[u].pc \in {"failing", "committed"}
    /\ db' = Rollback(db, uow[u])
    /\ uow' = [uow EXCEPT ![u] = IdleUoW]
    /\ UNCHANGED <<split, heap, added, ops>>

StoreNext ==
    \/ \E u \in UoWs : StartOperation(u)
    \/ \E u \in UoWs : SaveStep(u)
    \/ \E u \in UoWs : CommitStep(u)
    \/ \E u \in UoWs : RollbackStep(u)

StoreSpec == StoreInit /\ [][StoreNext]_vars

----------------------------------------------------------------------------
(* Properties of the Split aggregate *)

RECURSIVE PagesOfDocuments(_)
PagesOfDocuments(docs) ==
    IF docs = <<>> THEN <<>> ELSE Head(docs).Pages \o PagesOfDocuments(Tail(docs))

\* every page entry of a split: the page lists of its documents, then the pool
PageEntries(s) == PagesOfDocuments(s.Documents) \o s.UnassignedPages

\* C1: single ownership. In every Split reachable from NewSplit by AddDocument,
\* RemoveDocument, MovePages, UpdateDocumentMetadata and Finalize calls, a Page ID
\* appears at most once across the documents' page lists and the unassigned
\* pool together.
C1_SingleOwnership ==
    LET entries == PageEntries(split)
    IN  \A i, j \in 1..Len(entries) :
            i # j => heap[entries[i]].ID # heap[entries[j]].ID

\* C2: finalization is irreversible. Once the status is finalized, no call of
\* AddDocument, RemoveDocument, MovePages, UpdateDocumentMetadata or Finalize
\* makes it anything else.
C2_FinalizedStaysFinalized ==
    [][split.Status = SplitStatusFinalized => split'.Status = SplitStatusFinalized]_vars

\* a Split that Finalize has finalized (NewSplit leaves FinalizedAt nil) and
\* that holds a document for the further calls to address
C2_Witness ==
    /\ split.Status = SplitStatusFinalized
    /\ split.FinalizedAt # NilPtr
    /\ Len(split.Documents) = 2
    /\ \E docID \in DocIDs : RemoveDocument(heap, split, docID).err # NoErr

\* the Split is invalid: empty ID, empty client ID, or an invalid Document
SplitInvalid(h, s) ==
    \/ s.ID = ""
    \/ s.ClientID = ""
    \/ \E i \in 1..Len(s.Documents) : DocumentValid(h, s.Documents[i]) # NoErr

\* C3: the Finalize gate. On a draft Split, Finalize fails with a Validation
\* error and changes neither status nor finalize timestamp when the pool is
\* non-empty or the Split is invalid; otherwise it succeeds, the status becomes
\* finalized and the finalize timestamp is the time passed in.
C3_FinalizeGate ==
    split.Status = SplitStatusDraft =>
        \A finalizedAt \in Times :
            LET r == Finalize(heap, split, finalizedAt)
            IN  IF Len(split.UnassignedPages) > 0 \/ SplitInvalid(heap, split)
                THEN /\ KindOf(r.err) = DomainErrorValidation
                     /\ r.split.Status = split.Status
                     /\ r.split.FinalizedAt = split.FinalizedAt
                ELSE /\ r.err = NoErr
                     /\ r.split.Status = SplitStatusFinalized
                     /\ r.split.FinalizedAt = Ptr(finalizedAt)

\* a draft Split, valid, that RemoveDocument has left with a page in the pool
\* and on which Finalize fails
C3_Witness ==
    /\ split.Status = SplitStatusDraft
    /\ Len(split.UnassignedPages) > 0
    /\ Len(split.Documents) > 0
    /\ ~SplitInvalid(heap, split)
    /\ \A finalizedAt \in Times : Finalize(heap, split, finalizedAt).err # NoErr

\* C4: Finalize on a finalized Split fails with a Conflict error, whatever its
\* documents and pool, and leaves status and finalize timestamp unchanged; of
\* two consecutive Finalize calls the second fails.
C4_FinalizeOnce ==
    /\ split.Status = SplitStatusFinalized =>
          \A finalizedAt \in Times :
              LET r == Finalize(heap, split, finalizedAt)
              IN  /\ KindOf(r.err) = DomainErrorConflict
                  /\ r.split.Status = split.Status
                  /\ r.split.FinalizedAt = split.FinalizedAt
    /\ \A first, second \in Times :
          LET r1 == Finalize(heap, split, first)
          IN  Finalize(r1.heap, r1.split, second).err # NoErr

\* a Split finalized by Finalize at one time, on which Finalize at another time
\* is refused
C4_Witness ==
    /\ split.Status = SplitStatusFinalized
    /\ split.FinalizedAt = Ptr(1)
    /\ KindOf(Finalize(heap, split, 2).err) = DomainErrorConflict

\* the errors that AddDocument, RemoveDocument, MovePages and
\* UpdateDocumentMetadata return on split s, over all their arguments
MutationErrors(h, s) ==
    [AddDocument |-> {AddDocument(h, s, doc).err : doc \in InputDocuments},
     RemoveDocument |-> {RemoveDocument(h, s, docID).err : docID \in DocIDs},
     MovePages |-> {MovePages(h, s, from, to, pageIDs).err :
                       from \in DocIDs, to \in DocIDs, pageIDs \in PageIDLists},
     UpdateDocumentMetadata |-> {UpdateDocumentMetadata(h, s, docID, meta).err :
                                    docID \in DocIDs, meta \in Metadata}]

\* an error that is a DomainError of the Conflict kind
IsConflict(err) == err # NoErr /\ Head(err) = DomainErrorConflict

\* C5: on a finalized Split each of AddDocument, RemoveDocument, MovePages and
\* UpdateDocumentMetadata fails with a Conflict domain error, for every argument.
C5_FinalizedRejectsWithConflict ==
    split.Status = SplitStatusFinalized =>
        \A op \in DOMAIN MutationErrors(heap, split) :
            \A err \in MutationErrors(heap, split)[op] : IsConflict(err)

\* what AddDocument, RemoveDocument, MovePages and UpdateDocumentMetadata leave
\* of split s and of the pages, over all their arguments
MutationResults(h, s) ==
    {[split |-> AddDocument(h, s, doc).split, heap |-> AddDocument(h, s, doc).heap] :
        doc \in InputDocuments}
    \cup {[split |-> RemoveDocument(h, s, docID).split,
           heap |-> RemoveDocument(h, s, docID).heap] : docID \in DocIDs}
    \cup {[split |-> MovePages(h, s, from, to, pageIDs).split,
           heap |-> MovePages(h, s, from, to, pageIDs).heap] :
             from \in DocIDs, to \in DocIDs, pageIDs \in PageIDLists}
    \cup {[split |-> UpdateDocumentMetadata(h, s, docID, meta).split,
           heap |-> UpdateDocumentMetadata(h, s, docID, meta).heap] :
             docID \in DocIDs, meta \in Metadata}

\* C6: a finalized Split is locked. A call of AddDocument, RemoveDocument,
\* MovePages or UpdateDocumentMetadata on it leaves the document list, every
\* document's metadata, page list and range bounds, every page's assignment and
\* the unassigned pool as they were.
C6_FinalizedIsLocked ==
    split.Status = SplitStatusFinalized =>
        \A r \in MutationResults(heap, split) :
            /\ r.split.Documents = split.Documents
            /\ r.split.UnassignedPages = split.UnassignedPages
            /\ \A p \in DOMAIN heap : r.heap[p].DocumentID = heap[p].DocumentID

\* a finalized Split with a document RemoveDocument could remove, a page
\* MovePages could move and a page AddDocument could take
C6_Witness ==
    /\ split.Status = SplitStatusFinalized
    /\ split.FinalizedAt # NilPtr
    /\ Len(split.Documents) = 1
    /\ split.Documents[1].ID = "d1"
    /\ Len(split.Documents[1].Pages) = 1
    /\ Len(heap) = 2
    /\ KindOf(RemoveDocument(heap, split, "d1").err) = DomainErrorConflict

\* C7: a Page has no owning Document ID exactly when it is in the unassigned
\* pool. Every page in a document's page list carries that document's ID as its
\* DocumentID, and every page in the pool has a nil DocumentID.
C7_AssignedIffInDocument ==
    /\ \A i \in 1..Len(split.Documents) :
          \A k \in 1..Len(split.Documents[i].Pages) :
              heap[split.Documents[i].Pages[k]].DocumentID = Ptr(split.Documents[i].ID)
    /\ \A k \in 1..Len(split.UnassignedPages) :
          heap[split.UnassignedPages[k]].DocumentID = NilPtr

\* C8: a successful RemoveDocument(docID) on a draft Split removes exactly the
\* document with that ID from the document list (the first one carrying it),
\* puts every page that document owned into the unassigned pool with its
\* DocumentID cleared, keeps the pages already in the pool, and leaves every
\* other document (metadata, pages, range bounds) unchanged.
C8_RemoveDocument ==
    split.Status = SplitStatusDraft =>
        \A docID \in DocIDs :
            LET r == RemoveDocument(heap, split, docID)
            IN  r.err = NoErr =>
                    /\ DocIndices(split, docID) # {}
                    /\ LET i == Min(DocIndices(split, docID))
                           doc == split.Documents[i]
                       IN  /\ doc.ID = docID
                           /\ r.split.Documents = RemoveAt(split.Documents, i)
                           /\ r.split.UnassignedPages = split.UnassignedPages \o doc.Pages
                           /\ \A p \in Range(doc.Pages) : r.heap[p].DocumentID = NilPtr

\* a draft Split after RemoveDocument (only RemoveDocument fills the pool): a
\* page is in the pool, another document is still there, and a further
\* RemoveDocument succeeds
C8_Witness ==
    /\ split.Status = SplitStatusDraft
    /\ Len(split.UnassignedPages) > 0
    /\ \E docID \in DocIDs :
          /\ RemoveDocument(heap, split, docID).err = NoErr
          /\ Len(RemoveDocument(heap, split, docID).split.UnassignedPages)
                 > Len(split.UnassignedPages)

\* the pages of document d whose IDs are in pageIDs
PagesNamed(h, d, pageIDs) == {p \in Range(d.Pages) : h[p].ID \in Range(pageIDs)}

\* C9: a successful MovePages(from, to, P) on a draft Split with from # to moves
\* exactly the pages of the source whose IDs are in P. Each of them is then in
\* the target's page list, assigned to the target, and not in the source's; the
\* source keeps its other pages, the target keeps its previous pages, and all
\* other documents and the unassigned pool are unchanged. Source and target are
\* the documents the lookup of MovePages designates.
C9_MovePages ==
    split.Status = SplitStatusDraft =>
        \A from \in DocIDs, to \in DocIDs, pageIDs \in PageIDLists :
            LET r == MovePages(heap, split, from, to, pageIDs)
            IN  from # to /\ r.err = NoErr =>
                    LET f == Max(DocIndices(split, from))
                        t == Max(DocIndices(split, to))
                        moved == PagesNamed(heap, split.Documents[f], pageIDs)
                        source == r.split.Documents[f]
                        target == r.split.Documents[t]
                    IN  /\ \A p \in moved :
                              /\ p \in Range(target.Pages)
                              /\ r.heap[p].DocumentID = Ptr(to)
                              /\ p \notin Range(source.Pages)
                        /\ Range(source.Pages) = Range(split.Documents[f].Pages) \ moved
                        /\ Range(target.Pages) = Range(split.Documents[t].Pages) \cup moved
                        /\ Len(source.Pages) + Len(target.Pages)
                               = Len(split.Documents[f].Pages) + Len(split.Documents[t].Pages)
                        /\ Len(r.split.Documents) = Len(split.Documents)
                        /\ \A i \in 1..Len(split.Documents) :
                              i \notin {f, t} => r.split.Documents[i] = split.Documents[i]
                        /\ r.split.UnassignedPages = split.UnassignedPages

\* a draft Split after MovePages (only MovePages assigns a page): a document
\* holds a page assigned to it, and a move of one page out of a document that
\* keeps another succeeds
C9_Witness ==
    /\ split.Status = SplitStatusDraft
    /\ \E i \in 1..Len(split.Documents) : \E p \in Range(split.Documents[i].Pages) :
          heap[p].DocumentID = Ptr(split.Documents[i].ID)
    /\ \E from \in DocIDs, to \in DocIDs, pageIDs \in PageIDLists :
          LET r == MovePages(heap, split, from, to, pageIDs)
          IN  /\ from # to
              /\ r.err = NoErr
              /\ Len(pageIDs) = 1
              /\ Len(r.split.Documents[Max(DocIndices(split, from))].Pages) = 1

\* C10: MovePages on a draft Split fails with a NotFound error when the source
\* or the target document is not in the Split, and then changes no document,
\* page or pool entry.
C10_MovePagesNotFound ==
    split.Status = SplitStatusDraft =>
        \A from \in DocIDs, to \in DocIDs, pageIDs \in PageIDLists :
            DocIndices(split, from) = {} \/ DocIndices(split, to) = {} =>
                LET r == MovePages(heap, split, from, to, pageIDs)
                IN  /\ KindOf(r.err) = DomainErrorNotFound
                    /\ r.split = split
                    /\ r.heap = heap

\* a draft Split holding d1 with a page and no d2: a move of that page to d2
\* is refused as not found
C10_Witness ==
    /\ split.Status = SplitStatusDraft
    /\ DocIndices(split, "d2") = {}
    /\ \E i \in DocIndices(split, "d1") : \E p \in Range(split.Documents[i].Pages) :
          KindOf(MovePages(heap, split, "d1", "d2", <<heap[p].ID>>).err)
              = DomainErrorNotFound

\* C11: MovePages on a draft Split whose source and target exist fails with a
\* Validation error, before anything is removed from the source, when a
\* requested page ID is already in the target's page list (so also when source
\* and target are the same document and a page of it is named); the Split is
\* left unchanged.
C11_MovePagesAlreadyInTarget ==
    split.Status = SplitStatusDraft =>
        \A from \in DocIDs, to \in DocIDs, pageIDs \in PageIDLists :
            /\ DocIndices(split, from) # {}
            /\ DocIndices(split, to) # {}
            /\ PagesNamed(heap, split.Documents[Max(DocIndices(split, to))], pageIDs) # {}
            => LET r == MovePages(heap, split, from, to, pageIDs)
               IN  /\ r.err # NoErr
                   /\ Head(r.err) = DomainErrorValidation
                   /\ r.split = split
                   /\ r.heap = heap

\* a draft Split with a document of two pages: moving one of them from the
\* document to itself is refused
C11_Witness ==
    /\ split.Status = SplitStatusDraft
    /\ \E i \in 1..Len(split.Documents) :
          /\ Len(split.Documents[i].Pages) = 2
          /\ DocIndices(split, split.Documents[i].ID) = {i}
          /\ LET id == split.Documents[i].ID
                 r == MovePages(heap, split, id, id, <<heap[split.Documents[i].Pages[1]].ID>>)
             IN  KindOf(r.err) = DomainErrorValidation /\ r.split = split

\* C12: MovePages on a draft Split with existing source and target and a
\* non-empty list of page IDs none of which is owned by the source (nor is in
\* the target) fails with an error of the NotFound kind: the kind of the nested
\* RemovePages error is the kind of the returned error.
C12_MovePagesKeepsNotFoundKind ==
    split.Status = SplitStatusDraft =>
        \A from \in DocIDs, to \in DocIDs, pageIDs \in PageIDLists :
            /\ DocIndices(split, from) # {}
            /\ DocIndices(split, to) # {}
            /\ Len(pageIDs) > 0
            /\ PagesNamed(heap, split.Documents[Max(DocIndices(split, from))], pageIDs) = {}
            /\ PagesNamed(heap, split.Documents[Max(DocIndices(split, to))], pageIDs) = {}
            => LET r == MovePages(heap, split, from, to, pageIDs)
               IN  KindOf(r.err) = DomainErrorNotFound

\* C13: move round trip. For distinct documents A and B of a draft Split and a
\* non-empty set P of pages owned by A, MovePages(A, B, P) followed by
\* MovePages(B, A, P) both succeed and give A and B the page membership and the
\* start_page/end_page they had before the first move.
C13_MoveRoundTrip ==
    split.Status = SplitStatusDraft =>
        \A A \in DocIDs, B \in DocIDs, P \in PageIDLists :
            /\ A # B
            /\ DocIndices(split, A) # {}
            /\ DocIndices(split, B) # {}
            /\ Len(P) > 0
            /\ \A k \in 1..Len(P) :
                  PagesNamed(heap, split.Documents[Max(DocIndices(split, A))], <<P[k]>>) # {}
            => LET a == Max(DocIndices(split, A))
                   b == Max(DocIndices(split, B))
                   there == MovePages(heap, split, A, B, P)
                   back == MovePages(there.heap, there.split, B, A, P)
               IN  /\ there.err = NoErr
                   /\ back.err = NoErr
                   /\ \A i \in {a, b} :
                         /\ Range(back.split.Documents[i].Pages)
                                = Range(split.Documents[i].Pages)
                         /\ back.split.Documents[i].StartPage = split.Documents[i].StartPage
                         /\ back.split.Documents[i].EndPage = split.Documents[i].EndPage

\* C15: AddDocument on a draft Split fails with a Validation error if the
\* document is invalid, and otherwise with a Conflict error if a document with
\* the same ID is in the Split or a page of the incoming document is marked
\* assigned; on every failure the document list is unchanged, and on success
\* the document is appended as the last element and nothing else changes.
C15_AddDocument ==
    split.Status = SplitStatusDraft =>
        \A doc \in InputDocuments :
            LET r == AddDocument(heap, split, doc)
                invalid == DocumentValid(heap, doc) # NoErr
                known == \E i \in 1..Len(split.Documents) : split.Documents[i].ID = doc.ID
                assigned == \E p \in Range(doc.Pages) : heap[p].DocumentID # NilPtr
            IN  /\ invalid => r.err # NoErr /\ Head(r.err) = DomainErrorValidation
                /\ ~invalid /\ (known \/ assigned) =>
                       r.err # NoErr /\ Head(r.err) = DomainErrorConflict
                /\ ~invalid /\ ~known /\ ~assigned =>
                       /\ r.err = NoErr
                       /\ r.split = [split EXCEPT !.Documents = Append(@, doc)]
                       /\ r.heap = heap
                /\ r.err # NoErr => r.split.Documents = split.Documents

\* a draft Split without d1 and a page that MovePages has assigned: a valid d1
\* over that page is refused, a valid d1 over a page never assigned is appended
C15_Witness ==
    /\ split.Status = SplitStatusDraft
    /\ DocIndices(split, "d1") = {}
    /\ \E doc \in InputDocuments :
          /\ doc.ID = "d1"
          /\ DocumentValid(heap, doc) = NoErr
          /\ \E p \in Range(doc.Pages) : heap[p].DocumentID # NilPtr
          /\ KindOf(AddDocument(heap, split, doc).err) = DomainErrorConflict
    /\ \E doc \in InputDocuments :
          /\ doc.ID = "d1"
          /\ AddDocument(heap, split, doc).err = NoErr

\* the DocumentMetadata values a call can carry: each field absent or present,
\* the name present also as the empty string
MetadataRequests ==
    [Name : {NilPtr, Ptr(""), Ptr("n2")},
     Classification : {NilPtr, Ptr("c2")},
     ShortDescription : {NilPtr, Ptr("s2")}]

\* document e is document d with the present fields of meta set and nothing
\* else changed
MetadataApplied(d, e, meta) ==
    /\ e.Name = IF meta.Name # NilPtr THEN meta.Name[1] ELSE d.Name
    /\ e.Classification =
          IF meta.Classification # NilPtr THEN meta.Classification[1] ELSE d.Classification
    /\ e.ShortDescription =
          IF meta.ShortDescription # NilPtr THEN meta.ShortDescription[1]
          ELSE d.ShortDescription
    /\ [e EXCEPT !.Name = d.Name, !.Classification = d.Classification,
                 !.ShortDescription = d.ShortDescription] = d

\* C19: UpdateMetadata on a document, and UpdateDocumentMetadata on a draft
\* Split for the ID of one of its documents, return no error, set each of name,
\* classification and short description that the request carries, and leave
\* unchanged the absent fields, the document's ID, filename, page list and
\* range bounds, every other document, the unassigned pool and every page.
C19_UpdateMetadata ==
    \A meta \in MetadataRequests :
        /\ \A i \in 1..Len(split.Documents) :
              LET r == UpdateMetadata(split.Documents[i], meta)
              IN  r.err = NoErr /\ MetadataApplied(split.Documents[i], r.doc, meta)
        /\ \A docID \in DocIDs :
              LET r == UpdateDocumentMetadata(heap, split, docID, meta)
              IN  split.Status = SplitStatusDraft /\ DocIndices(split, docID) # {} =>
                     /\ r.err = NoErr
                     /\ r.heap = heap
                     /\ [r.split EXCEPT !.Documents = split.Documents] = split
                     /\ Len(r.split.Documents) = Len(split.Documents)
                     /\ \E i \in DocIndices(split, docID) :
                           /\ MetadataApplied(split.Documents[i], r.split.Documents[i], meta)
                           /\ \A k \in 1..Len(split.Documents) :
                                 k # i => r.split.Documents[k] = split.Documents[k]

\* a draft Split after an UpdateDocumentMetadata that carried the empty name
\* alone: the document has the empty name and its classification and short
\* description of before
C19_Witness ==
    /\ split.Status = SplitStatusDraft
    /\ \E i \in 1..Len(split.Documents) :
          /\ split.Documents[i].Name = ""
          /\ split.Documents[i].Classification = "c1"
          /\ split.Documents[i].ShortDescription = "s1"
          /\ Len(split.Documents[i].Pages) > 0

\* the status values an input JSON can carry: the two statuses, another
\* string, and the empty string of a JSON without the field
InputStatuses == {SplitStatusDraft, SplitStatusFinalized, "archived", ""}

\* C20: every Split that NewSplit returns has the draft status and no finalize
\* timestamp, whatever status the input JSON carries. The inputs are those with
\* the split_id and client_id of the Split at hand; NewSplit returns no Split for
\* an input without them.
C20_NewSplitIsDraft ==
    \A j \in SplitData, st \in InputStatuses :
        LET r == NewSplit([j EXCEPT !.status = st])
        IN  j.split_id = split.ID /\ j.client_id = split.ClientID /\ r.ok =>
               /\ r.split.Status = SplitStatusDraft
               /\ r.split.FinalizedAt = NilPtr

\* the input JSON j and the inputs that differ from it by one empty required
\* field of the first document
InputVariants(j) ==
    {j} \cup (IF j.documents = <<>> THEN {}
              ELSE {[j EXCEPT !.documents[1].name = ""],
                    [j EXCEPT !.documents[1].classification = ""],
                    [j EXCEPT !.documents[1].file_name = ""]})

\* an input document that Document.Valid refuses or one of whose URLs NewPage
\* refuses
MalformedDocument(dd) ==
    \/ dd.id = "" \/ dd.name = "" \/ dd.classification = "" \/ dd.file_name = ""
    \/ dd.page_urls = <<>>
    \/ \E k \in 1..Len(dd.page_urls) : ~SscanfPage(dd.page_urls[k]).ok

C30_NoEmptyDocument ==
    (\A i \in 1..Len(split.Documents) : Len(split.Documents[i].Pages) >= 1) =>
        \A r \in MutationResults(heap, split)
                   \cup {[split |-> Finalize(heap, split, t).split,
                          heap |-> Finalize(heap, split, t).heap] : t \in Times} :
            \A i \in 1..Len(r.split.Documents) : Len(r.split.Documents[i].Pages) >= 1

\* no two documents of the list of s have the same ID
DocumentIDsUnique(s) ==
    \A i \in 1..Len(s.Documents), k \in 1..Len(s.Documents) :
        i # k => s.Documents[i].ID # s.Documents[k].ID

\* the input JSONs with the split_id, client_id and status of the Split at
\* hand, each also with one more document
LongerInputs ==
    {[j EXCEPT !.documents = Append(@, dd)] :
        j \in {i \in SplitData : /\ i.split_id = split.ID
                                 /\ i.client_id = split.ClientID
                                 /\ i.status = split.Status},
        dd \in DocData}

\* C36: document IDs are unique within a Split. No two documents of a Split
\* returned by NewSplit, or reached from it by AddDocument, RemoveDocument,
\* MovePages, UpdateDocumentMetadata and Finalize, have the same ID.
C36_DocumentIDsUnique ==
    /\ DocumentIDsUnique(split)
    /\ \A j \in LongerInputs : NewSplit(j).ok => DocumentIDsUnique(NewSplit(j).split)

\* the Split at hand, and the Splits one more AddDocument call makes of it when
\* the caller's document is a NewDocument over one Page object listed twice
WithRepeatedPageDocument ==
    {[split |-> split, heap |-> heap]}
    \cup {[split |-> AddDocument(heap, split, doc).split,
           heap |-> AddDocument(heap, split, doc).heap] :
            doc \in {NewDocument(heap, id, split.ID, "n1", "c1", "f1", "s1", <<r, r>>).doc :
                        id \in DocIDs, r \in DOMAIN heap}}

\* C37: MovePages is all-or-nothing in every reachable Split. Whenever it
\* returns an error, the documents with their page lists and range bounds and
\* the assignment of every page are as before the call: the add-to-target step
\* never fails after the removal from the source.
C37_MovePagesAllOrNothing ==
    \A g \in WithRepeatedPageDocument :
        \A from \in DocIDs, to \in DocIDs, pageIDs \in PageIDLists :
            LET r == MovePages(g.heap, g.split, from, to, pageIDs)
            IN  r.err # NoErr => r.split = g.split /\ r.heap = g.heap

----------------------------------------------------------------------------
(* Properties of the Document methods, under DocSpec *)

\* the derived range of document d: the URLs of its pages with the lowest and
\* the highest page number
RangeDerived(h, d) ==
    Len(d.Pages) > 0 =>
        /\ \E p \in Range(d.Pages) :
              /\ \A q \in Range(d.Pages) : h[p].PageNumber <= h[q].PageNumber
              /\ d.StartPage = h[p].URL
        /\ \E p \in Range(d.Pages) :
              /\ \A q \in Range(d.Pages) : h[p].PageNumber >= h[q].PageNumber
              /\ d.EndPage = h[p].URL

\* C14: range derivation. After every AddPages or RemovePages call on a
\* Document, successful or not, a Document that owns at least one page has as
\* start_page the URL of its page with the lowest page number and as end_page
\* the URL of its page with the highest page number.
C14_RangeDerivation ==
    \A i \in 1..Len(split.Documents) : RangeDerived(heap, split.Documents[i])

\* the position in the batch at which AddPages meets an assigned page: the
\* first page that was assigned before the call or stands earlier in the
\* batch; 0 if there is none
FirstAssigned(h, pages) ==
    LET hits == {k \in 1..Len(pages) :
                    \/ h[pages[k]].DocumentID # NilPtr
                    \/ \E j \in 1..(k - 1) : pages[j] = pages[k]}
    IN  IF hits = {} THEN 0 ELSE Min(hits)

\* C16: AddPages fails with a Validation error as soon as it meets a page of
\* the batch that is already assigned; the pages before it in the batch stay
\* appended to the document and assigned to it, and that page and the pages
\* after it are neither appended nor assigned anew.
C16_AddPagesNoRollback ==
    \A i \in 1..Len(split.Documents), pages \in PageBatches :
        LET d == split.Documents[i]
            r == AddPages(heap, d, pages)
            k == FirstAssigned(heap, pages)
        IN  k > 0 =>
               /\ r.err # NoErr
               /\ Head(r.err) = DomainErrorValidation
               /\ r.doc.Pages = d.Pages \o SubSeq(pages, 1, k - 1)
               /\ \A j \in 1..(k - 1) : r.heap[pages[j]].DocumentID = Ptr(d.ID)
               /\ \A p \in DOMAIN heap :
                     p \notin Range(SubSeq(pages, 1, k - 1)) => r.heap[p] = heap[p]

\* a document after a failed AddPages: it owns a page assigned to it that its
\* range bounds do not cover, and a further batch with an unassigned page
\* followed by an assigned one fails in the same way
C16_Witness ==
    \E i \in 1..Len(split.Documents) :
        /\ ~RangeDerived(heap, split.Documents[i])
        /\ \E p \in Range(split.Documents[i].Pages) :
              heap[p].DocumentID = Ptr(split.Documents[i].ID)
        /\ \E pages \in PageBatches :
              /\ FirstAssigned(heap, pages) = 2
              /\ pages[1] # pages[2]
              /\ KindOf(AddPages(heap, split.Documents[i], pages).err)
                     = DomainErrorValidation

\* the number of entries of page list pages that are in the set S
RECURSIVE CountIn(_, _)
CountIn(pages, S) ==
    IF pages = <<>> THEN 0
    ELSE (IF Head(pages) \in S THEN 1 ELSE 0) + CountIn(Tail(pages), S)

\* C17: a successful RemovePages(ids) with a non-empty id list returns exactly
\* the owned pages whose IDs are in the list (IDs of no owned page are
\* ignored), removes exactly those from the page list keeping the others, and
\* leaves every returned page with its DocumentID cleared.
C17_RemovePages ==
    \A i \in 1..Len(split.Documents), pageIDs \in PageIDLists :
        LET d == split.Documents[i]
            r == RemovePages(heap, d, pageIDs)
            named == PagesNamed(heap, d, pageIDs)
        IN  Len(pageIDs) > 0 /\ r.err = NoErr =>
               /\ named # {}
               /\ Range(r.removed) = named
               /\ Len(r.removed) = CountIn(d.Pages, named)
               /\ Range(r.doc.Pages) = Range(d.Pages) \ named
               /\ Len(r.doc.Pages) = Len(d.Pages) - CountIn(d.Pages, named)
               /\ \A p \in named : r.heap[p].DocumentID = NilPtr

\* a document whose one page is assigned to it, and a second page it does not
\* own: RemovePages of both IDs succeeds and returns the owned page alone
C17_Witness ==
    \E i \in 1..Len(split.Documents) :
        LET d == split.Documents[i]
        IN  \E p \in Range(d.Pages), pageIDs \in PageIDLists :
               /\ heap[p].DocumentID = Ptr(d.ID)
               /\ Len(pageIDs) = 2
               /\ PagesNamed(heap, d, pageIDs) = {p}
               /\ RemovePages(heap, d, pageIDs).err = NoErr
               /\ RemovePages(heap, d, pageIDs).removed = <<p>>
               /\ RemovePages(heap, d, pageIDs).doc.Pages = <<>>

\* C18: RemovePages fails with a NotFound error when the id list is non-empty
\* and no ID is that of an owned page, and returns no pages and no error when
\* the id list is empty; in both cases the page list, the range bounds and
\* every page's assignment are unchanged.
C18_RemovePagesNothingToRemove ==
    \A i \in 1..Len(split.Documents), pageIDs \in PageIDLists :
        LET d == split.Documents[i]
            r == RemovePages(heap, d, pageIDs)
        IN  /\ Len(pageIDs) = 0 => r.err = NoErr
            /\ Len(pageIDs) > 0 /\ PagesNamed(heap, d, pageIDs) = {} =>
                   r.err # NoErr /\ Head(r.err) = DomainErrorNotFound
            /\ Len(pageIDs) = 0 \/ PagesNamed(heap, d, pageIDs) = {} =>
                   /\ r.removed = <<>>
                   /\ r.doc = d
                   /\ \A p \in DOMAIN heap : r.heap[p].DocumentID = heap[p].DocumentID

\* a document that owns an assigned page, after AddPages and RemovePages calls:
\* RemovePages of an ID it does not own is refused as not found, RemovePages
\* of no ID returns nothing
C18_Witness ==
    \E i \in 1..Len(split.Documents) :
        LET d == split.Documents[i]
        IN  /\ \E p \in Range(d.Pages) : heap[p].DocumentID = Ptr(d.ID)
            /\ \E q \in DOMAIN heap : q \notin Range(d.Pages) /\ heap[q].DocumentID = NilPtr
            /\ \E pageIDs \in PageIDLists :
                  /\ Len(pageIDs) > 0
                  /\ KindOf(RemovePages(heap, d, pageIDs).err) = DomainErrorNotFound
            /\ RemovePages(heap, d, <<>>).err = NoErr

\* the page list is in ascending order of page number
SortedByPageNumber(h, pages) ==
    \A i \in 1..Len(pages), j \in 1..Len(pages) :
        i < j => h[pages[i]].PageNumber <= h[pages[j]].PageNumber

\* C31: after NewDocument and after every successful AddPages or RemovePages
\* the page list of the document is sorted ascending by page number.
C31_PagesSorted ==
    /\ \A pages \in PageBatches :
          LET r == NewDocument(heap, "d1", split.ID, "n1", "c1", "f1", "s1", pages)
          IN  r.ok => SortedByPageNumber(heap, r.doc.Pages)
    /\ \A i \in 1..Len(split.Documents), pages \in PageBatches :
          LET r == AddPages(heap, split.Documents[i], pages)
          IN  r.err = NoErr => SortedByPageNumber(r.heap, r.doc.Pages)
    /\ \A i \in 1..Len(split.Documents), pageIDs \in PageIDLists :
          LET r == RemovePages(heap, split.Documents[i], pageIDs)
          IN  r.err = NoErr => SortedByPageNumber(r.heap, r.doc.Pages)

----------------------------------------------------------------------------
(* Properties of the storage and of the service, under StoreSpec *)

\* what a document of an aggregate is to a reader: its metadata, its range
\* bounds and its pages in list order
DocumentView(h, doc) ==
    [ID |-> doc.ID, Name |-> doc.Name, Classification |-> doc.Classification,
     Filename |-> doc.Filename, ShortDescription |-> doc.ShortDescription,
     StartPage |-> doc.StartPage, EndPage |-> doc.EndPage,
     Pages |-> [i \in 1..Len(doc.Pages) |->
                  [ID |-> h[doc.Pages[i]].ID, PageNumber |-> h[doc.Pages[i]].PageNumber,
                   URL |-> h[doc.Pages[i]].URL]]]

\* the aggregates about to be saved: the one each operation holds after its
\* domain call, with the tables its Save starts from, and before any operation
\* the aggregate the stored rows were saved from
AggregatesToSave ==
    {[base |-> uow[u].view, split |-> uow[u].split, heap |-> uow[u].heap] :
        u \in {v \in UoWs : uow[v].pc = "loaded"}}
    \cup {[base |-> EmptyDB, split |-> a.split, heap |-> a.heap] :
            a \in {b \in StoredAggregates :
                      ops = 0 /\ db = Save(EmptyDB, b.heap, b.split)}}

\* C22: round trip. After Save(split), Get(split.ID) returns a Split with the
\* same ID, client ID and status, the same set of documents with the same
\* metadata and range bounds and, for each document, the same pages in the
\* order of the saved page list, and the same set of unassigned pages.
C22_SaveGetRoundTrip ==
    \A a \in AggregatesToSave :
        \A g \in Get(Save(a.base, a.heap, a.split), a.split.ID) :
            /\ g.found
            /\ g.split.ID = a.split.ID
            /\ g.split.ClientID = a.split.ClientID
            /\ g.split.Status = a.split.Status
            /\ {DocumentView(g.heap, g.split.Documents[i]) : i \in 1..Len(g.split.Documents)}
                 = {DocumentView(a.heap, a.split.Documents[i]) :
                       i \in 1..Len(a.split.Documents)}
            /\ Len(g.split.Documents) = Len(a.split.Documents)
            /\ {g.heap[r].ID : r \in Range(g.split.UnassignedPages)}
                 = {a.heap[r].ID : r \in Range(a.split.UnassignedPages)}

\* the aggregate g.split without its i-th document and without that document's
\* pages, as the tables are when it is saved on d
SavedWithoutDocument(d, g, i) ==
    LET doc == g.split.Documents[i]
        rest == [k \in 1..(Len(g.split.Documents) - 1) |->
                    g.split.Documents[IF k < i THEN k ELSE k + 1]]
    IN  [documentID |-> doc.ID,
         pageIDs |-> {g.heap[r].ID : r \in Range(doc.Pages)},
         db |-> Save(d, g.heap, [g.split EXCEPT !.Documents = rest])]

\* the loaded aggregates of the committed Splits, each with one of its documents
\* to be left out
PersistedDocuments ==
    UNION {{[g |-> g, i |-> i] : i \in 1..Len(g.split.Documents)} :
              g \in UNION {Get(db, id) : id \in DOMAIN db.splits}}

\* C23: reconciliation deletion. After Save of a Split from which a persisted
\* Document and its Pages are absent in memory, storage holds no row for that
\* Document and no row for those Pages, and no page row of the Split names in
\* document_id a document without a row.
C23_ReconciliationDeletion ==
    \A x \in PersistedDocuments :
        LET a == SavedWithoutDocument(db, x.g, x.i)
        IN  /\ a.documentID \notin DOMAIN a.db.documents
            /\ a.pageIDs \cap DOMAIN a.db.pages = {}
            /\ \A p \in DOMAIN a.db.pages :
                   (a.db.pages[p].split_id = x.g.split.ID
                      /\ a.db.pages[p].document_id # SQLNull)
                   => a.db.pages[p].document_id[1] \in DOMAIN a.db.documents

\* a document created by the service, persisted with pages and with another
\* document beside it, whose rows and page rows a Save without it removes
C23_Witness ==
    \E x \in PersistedDocuments :
        /\ Len(x.g.split.Documents) > 1
        /\ LET a == SavedWithoutDocument(db, x.g, x.i)
           IN  /\ a.documentID \in Range(UUIDs)
               /\ a.documentID \in DOMAIN db.documents
               /\ a.pageIDs # {}
               /\ a.pageIDs \subseteq DOMAIN db.pages
               /\ a.documentID \notin DOMAIN a.db.documents
               /\ a.pageIDs \cap DOMAIN a.db.pages = {}
               /\ DOMAIN a.db.documents # {}

\* C24: service operations are atomic with respect to committed storage. An
\* operation that is returning an error, whichever step failed (lookup, load,
\* domain call, Save or Commit), leaves the committed tables exactly as they
\* were when it began, also when some statements of its Save were executed;
\* while an operation is between its first read and its Commit the committed
\* tables hold none of its writes, so never a part of them.
C24_FailedOperationIsAtomic ==
    \A u \in UoWs :
        /\ uow[u].pc = "failing" => uow[u].err # NoErr
        /\ uow[u].pc \in {"loaded", "saved", "failing"} => db = uow[u].before

\* an operation whose Save failed after statements that changed rows: its
\* transaction sees a part of the writes, the committed tables none
C24_Witness ==
    \E u \in UoWs :
        /\ uow[u].pc = "failing"
        /\ uow[u].wrote
        /\ uow[u].view # uow[u].before
        /\ uow[u].view # Save(uow[u].before, uow[u].heap, uow[u].split)
        /\ db = uow[u].before

\* C25: Unit of Work boundary. The committed tables change only at the Commit
\* of a Unit of Work, and then to all the writes of its Save together; the
\* Rollback of a Unit of Work that did not commit leaves the tables of before
\* its writes; the deferred Rollback after a successful Commit leaves the
\* committed writes in place.
C25_UnitOfWorkBoundary ==
    [][/\ db' # db => \E u \in UoWs : uow[u].pc = "saved" /\ uow'[u].pc = "committed"
       /\ \A u \in UoWs :
             (uow[u].pc = "saved" /\ uow'[u].pc = "committed") =>
                 db' = Save(uow[u].before, uow[u].heap, uow[u].split)
       /\ \A u \in UoWs :
             (uow[u].pc = "failing" /\ uow'[u].pc = "idle") =>
                 (db' = uow[u].before /\ db' = db)
       /\ \A u \in UoWs :
             (uow[u].pc = "committed" /\ uow'[u].pc = "idle") => db' = db]_vars

\* a Unit of Work that has committed writes that changed rows, before its
\* deferred Rollback
C25_Witness ==
    \E u \in UoWs :
        /\ uow[u].pc = "committed"
        /\ uow[u].view # uow[u].before
        /\ db = uow[u].view
        /\ Rollback(db, uow[u]) = uow[u].view

Tables == {"splits", "documents", "pages"}

\* the row of key k in a table, <<>> when there is none
RowOf(table, k) == IF k \in DOMAIN table THEN <<table[k]>> ELSE <<>>

\* the keys of the rows of table t that the writes of Unit of Work w changed
ChangedKeys(w, t) ==
    {k \in DOMAIN w.before[t] \cup DOMAIN w.view[t] :
        RowOf(w.before[t], k) # RowOf(w.view[t], k)}

\* u and v have both committed writes to the same Split, v after u
CommittedInTurn(u, v) ==
    /\ u # v
    /\ uow[u].pc = "committed" /\ uow[v].pc = "committed"
    /\ uow[u].split.ID = uow[v].split.ID
    /\ uow[v].before = uow[u].view
    /\ db = uow[v].view

IsNotFoundOutcome(err) ==
    err # NoErr /\ (IsErrNotFound(err) \/ KindOf(err) = DomainErrorNotFound)

\* C27: GetSplitIDByDocumentID returns the ID of the Split of the persisted
\* document with the given ID; when no persisted document has that ID it fails
\* with an error recognizable as not-found, and so do the service operations
\* that start with this lookup.
C27_GetSplitIDByDocumentID ==
    \A id \in DocIDs \cup Range(UUIDs) :
        LET l == GetSplitIDByDocumentID(db, id)
        IN  IF id \in DOMAIN db.documents
            THEN l.err = NoErr /\ l.splitID = db.documents[id].split_id
            ELSE /\ IsNotFoundOutcome(l.err)
                 /\ \A req \in ServiceRequests :
                        (req.op \in {"UpdateDocumentMetadata", "DeleteDocument"}
                           /\ req.id = id)
                        => \A r \in ServiceRun(db, req, id) : IsNotFoundOutcome(r.err)

\* the IDs of the persisted pages of Split id that no document owns
PoolOf(d, id) ==
    {p \in DOMAIN d.pages : d.pages[p].split_id = id /\ d.pages[p].document_id = SQLNull}

\* the IDs of the persisted pages that document x owns
PagesOwnedBy(d, x) == {p \in DOMAIN d.pages : d.pages[p].document_id = Ptr(x)}

CreateRequests == {req \in ServiceRequests : req.op = "CreateDocument"}

\* the tables r are the tables d with one more document, x, that owns exactly
\* the pages of wanted; every other row is as it was
CreatedOn(d, r, x, id, wanted) ==
    /\ DOMAIN r.documents = DOMAIN d.documents \cup {x}
    /\ r.documents[x].split_id = id
    /\ PagesOwnedBy(r, x) = wanted
    /\ PoolOf(r, id) = PoolOf(d, id) \ wanted
    /\ r.splits = d.splits
    /\ \A y \in DOMAIN d.documents : r.documents[y] = d.documents[y]
    /\ DOMAIN r.pages = DOMAIN d.pages
    /\ \A p \in DOMAIN d.pages \ wanted : r.pages[p] = d.pages[p]

\* C28: service CreateDocument on a persisted draft Split. With no requested page
\* ID in the unassigned pool it fails with a Validation error and persists
\* nothing; with at least one, and metadata of a valid document, it succeeds and
\* the persisted Split has one new document owning exactly the requested pages
\* of the pool, which are no longer unassigned; pages of other documents stay
\* where they are even if their IDs were requested. Stated for the operation
\* running alone, with the document ID that uuid.NewString() gives it.
C28_ServiceCreateDocument ==
    (\A u \in UoWs : uow[u].pc = "idle") =>
        \A req \in CreateRequests :
            (req.id \in DOMAIN db.splits /\ db.splits[req.id].status = SplitStatusDraft) =>
                LET x == UUIDs[ops + 1]
                    wanted == Range(req.PageIDs) \cap PoolOf(db, req.id)
                IN  \A r \in ServiceRun(db, req, x) :
                        /\ wanted = {} =>
                              (KindOf(r.err) = DomainErrorValidation /\ r.db = db)
                        /\ (wanted # {} /\ req.Name # "") =>
                              (r.err = NoErr /\ CreatedOn(db, r.db, x, req.id, wanted))
                        /\ r.err # NoErr => r.db = db

\* a committed CreateDocument whose request named a page of the pool and a
\* page of another document: the new document owns the first only
C28_Witness ==
    \E u \in UoWs :
        LET w == uow[u]
            wanted == Range(w.req.PageIDs) \cap PoolOf(w.before, w.req.id)
        IN  /\ w.pc = "committed"
            /\ w.req.op = "CreateDocument"
            /\ db = w.view
            /\ wanted # {}
            /\ \E p \in Range(w.req.PageIDs) \ wanted :
                   /\ p \in DOMAIN w.before.pages
                   /\ w.before.pages[p].document_id # SQLNull
                   /\ db.pages[p] = w.before.pages[p]
            /\ \E x \in Range(UUIDs) \ DOMAIN w.before.documents :
                   CreatedOn(w.before, db, x, w.req.id, wanted)

DeleteRequests ==
    {req \in ServiceRequests : req.op = "DeleteDocument" /\ req.id \in DOMAIN db.documents}

\* a CreateDocument request for the pages ids of Split id
CreateRequestFor(id, ids) ==
    [op |-> "CreateDocument", id |-> id, Name |-> "n1", Classification |-> "c1",
     Filename |-> "f1", ShortDescription |-> "s1", PageIDs |-> ids]

\* C29: service DeleteDocument on a persisted draft Split. The document is
\* absent on the next load, each of its former pages is an unassigned page of
\* the Split, persisted with a null document_id, the other rows are as they
\* were, and a later CreateDocument that names a former page gets it. Stated
\* for the operations running alone.
C29_ServiceDeleteDocument ==
    (\A u \in UoWs : uow[u].pc = "idle") =>
        \A req \in DeleteRequests :
            LET id == db.documents[req.id].split_id
                former == PagesOwnedBy(db, req.id)
            IN  db.splits[id].status = SplitStatusDraft =>
                  \A r \in ServiceRun(db, req, UUIDs[ops + 1]) :
                      /\ r.err = NoErr
                      /\ DOMAIN r.db.documents = DOMAIN db.documents \ {req.id}
                      /\ \A y \in DOMAIN r.db.documents : r.db.documents[y] = db.documents[y]
                      /\ DOMAIN r.db.pages = DOMAIN db.pages
                      /\ \A p \in former :
                             r.db.pages[p] = [db.pages[p] EXCEPT !.document_id = SQLNull]
                      /\ \A p \in DOMAIN db.pages \ former : r.db.pages[p] = db.pages[p]
                      /\ \A g \in Get(r.db, id) :
                             /\ g.found
                             /\ \A i \in 1..Len(g.split.Documents) :
                                    g.split.Documents[i].ID # req.id
                             /\ former \subseteq
                                  {g.heap[q].ID : q \in Range(g.split.UnassignedPages)}
                      /\ \A p \in former :
                             \A c \in ServiceRun(r.db, CreateRequestFor(id, <<p>>),
                                                 UUIDs[ops + 1]) :
                                 /\ c.err = NoErr
                                 /\ PagesOwnedBy(c.db, UUIDs[ops + 1]) = {p}

\* the committed tables after a DeleteDocument and a CreateDocument: a document
\* of the Split first stored is gone and one of its pages belongs to a document
\* the service created
C29_Witness ==
    \E a \in StoredAggregates :
        \E i \in 1..Len(a.split.Documents) :
            /\ a.split.Documents[i].ID \notin DOMAIN db.documents
            /\ \E q \in Range(a.split.Documents[i].Pages) :
                   /\ a.heap[q].ID \in DOMAIN db.pages
                   /\ \E x \in Range(UUIDs) :
                          /\ x \in DOMAIN db.documents
                          /\ db.pages[a.heap[q].ID].document_id = Ptr(x)

\* every page row names a document that has a row, or none, and every document
\* row and page row names a split that has a row
ForeignKeysHold(d) ==
    /\ \A x \in DOMAIN d.documents : d.documents[x].split_id \in DOMAIN d.splits
    /\ \A p \in DOMAIN d.pages :
          /\ d.pages[p].split_id \in DOMAIN d.splits
          /\ d.pages[p].document_id # SQLNull =>
                d.pages[p].document_id[1] \in DOMAIN d.documents

\* C32: foreign-key-safe statement order. After each statement of Save and of
\* Delete, on tables whose references held before the call, no page row names
\* a document without a row and no document or page row names a split without
\* a row.
C32_ForeignKeySafeOrder ==
    /\ \A u \in UoWs :
          (uow[u].pc = "loaded" /\ ForeignKeysHold(uow[u].view)) =>
              \A t \in SaveTraces(uow[u].view, uow[u].heap, uow[u].split) :
                  \A k \in 1..Len(t) : ForeignKeysHold(t[k])
    /\ \A id \in DOMAIN db.splits :
          ForeignKeysHold(db) =>
              \A k \in 1..Len(DeleteTrace(db, id)) : ForeignKeysHold(DeleteTrace(db, id)[k])

\* the page IDs of aggregate s: the pages of its documents and its pool
PageIDsOf(h, s) == {h[PageEntries(s)[k]].ID : k \in 1..Len(PageEntries(s))}

\* the keys of the persisted page rows of Split id
PageRowsOf(d, id) == {p \in DOMAIN d.pages : d.pages[p].split_id = id}

\* what RemoveDocument, MovePages, UpdateDocumentMetadata and Finalize leave of
\* the loaded aggregate g, over all their arguments
DomainResultsOn(g) ==
    LET ids == {g.split.Documents[i].ID : i \in 1..Len(g.split.Documents)} \cup DocIDs
        lists == {l \in ShortLists(PageIDsOf(g.heap, g.split)) : Len(l) = 2 => l[1] < l[2]}
    IN  {RemoveDocument(g.heap, g.split, x) : x \in ids}
        \cup {MovePages(g.heap, g.split, from, to, l) :
                 from \in ids, to \in ids, l \in lists}
        \cup {UpdateDocumentMetadata(g.heap, g.split, x, meta) :
                 x \in ids, meta \in Metadata}
        \cup {Finalize(g.heap, g.split, now) : now \in Times}

C34_CreatedDocumentRange ==
    (\A u \in UoWs : uow[u].pc = "idle") =>
        \A req \in CreateRequests :
            (req.id \in DOMAIN db.splits /\ db.splits[req.id].status = SplitStatusDraft) =>
                \A g \in Get(db, req.id) :
                    LET x == UUIDs[ops + 1]
                        m == ServiceMutate(req, g, x)
                        d == Save(db, m.heap, m.split)
                    IN  m.err = NoErr =>
                           /\ \A i \in 1..Len(m.split.Documents) :
                                 m.split.Documents[i].ID = x =>
                                     /\ RangeDerived(m.heap, m.split.Documents[i])
                                     /\ SortedByPageNumber(m.heap, m.split.Documents[i].Pages)
                           /\ \E lo \in PagesOwnedBy(d, x), hi \in PagesOwnedBy(d, x) :
                                 /\ \A p \in PagesOwnedBy(d, x) :
                                       /\ Atoi(d.pages[lo].page_number)
                                            <= Atoi(d.pages[p].page_number)
                                       /\ Atoi(d.pages[p].page_number)
                                            <= Atoi(d.pages[hi].page_number)
                                 /\ d.documents[x].start_page = d.pages[lo].url
                                 /\ d.documents[x].end_page = d.pages[hi].url

\* the committed rows of Split id: its row, its document rows, its page rows
RowsOfSplit(d, id) ==
    [split |-> RowOf(d.splits, id),
     documents |-> {<<x, d.documents[x]>> :
                       x \in {y \in DOMAIN d.documents : d.documents[y].split_id = id}},
     pages |-> {<<p, d.pages[p]>> : p \in PageRowsOf(d, id)}]

\* C35: once the committed status of a Split is finalized, no later step of
\* any operation, in any interleaving of the Units of Work, changes its
\* committed row, document rows or page rows: the status stays finalized and
\* the documents and the ownership of the pages stay as they are.
C35_FinalizedStaysCommitted ==
    [][\A id \in DOMAIN db.splits :
           db.splits[id].status = SplitStatusFinalized =>
               RowsOfSplit(db', id) = RowsOfSplit(db, id)]_vars

\* a finalized committed Split and an operation that loaded it afterwards and
\* is refused with a Conflict error
C35_Witness ==
    \E u \in UoWs :
        /\ uow[u].pc = "failing"
        /\ uow[u].req.op \in {"MovePages", "CreateDocument", "DeleteDocument"}
        /\ KindOf(uow[u].err) = DomainErrorConflict
        /\ \E id \in DOMAIN db.splits :
              /\ db.splits[id].status = SplitStatusFinalized
              /\ uow[u].before.splits[id].status = SplitStatusFinalized

\* the aggregates of another Split, s2, that a caller builds with NewSplit from
\* a JSON of its own and saves: the document IDs are the JSON's, the Page IDs
\* are fresh UUIDs (here the numbers after those of the persisted pages)
OtherAggregates ==
    LET fresh(h) == [r \in DOMAIN h |->
                        [h[r] EXCEPT !.ID = @ + Len(NewSplit(StoredSplitData).heap)]]
    IN  {[split |-> NewSplit(j).split, heap |-> fresh(NewSplit(j).heap)] :
            j \in {[i EXCEPT !.split_id = "s2"] :
                      i \in {k \in SplitData : NewSplit(k).ok}}}

\* C38: Save(split) changes only rows of that Split. The split row, the
\* document rows and the page rows that belonged to another Split before the
\* call are the same after it, whatever document IDs and page IDs the saved
\* aggregate has.
C38_SaveFrame ==
    \A a \in OtherAggregates :
        \A id \in DOMAIN db.splits \ {a.split.ID} :
            RowsOfSplit(Save(db, a.heap, a.split), id) = RowsOfSplit(db, id)

\* C39: the finalize timestamp survives persistence. A Split that was
\* finalized, saved and committed is loaded by Get with status finalized and
\* the finalize timestamp that Finalize recorded: in every loaded Split the
\* timestamp is set exactly when the status is finalized.
C39_FinalizedAtPersisted ==
    \A id \in DOMAIN db.splits :
        \A g \in Get(db, id) :
            /\ g.found
            /\ (g.split.Status = SplitStatusFinalized) <=> (g.split.FinalizedAt # NilPtr)
            /\ \A u \in UoWs :
                  (/\ uow[u].pc = "committed"
                   /\ uow[u].req.op = "FinalizeSplit"
                   /\ uow[u].split.ID = id)
                  => g.split.FinalizedAt = uow[u].split.FinalizedAt

====
